---- MODULE Spec2Model ----
(***************************************************************************)
(* Arcade driving core: Vehicle (physics/Vehicle.ts), the tire model, the  *)
(* terrain table, the route graph and the Game controller that drives them *)
(* once per frame.                                                         *)
(*                                                                         *)
(* NUMBERS.  The program computes with IEEE doubles.  Here every real      *)
(* number x of the program is the integer round(1000 * x): metres become   *)
(* millimetres, seconds milliseconds, radians milliradians, rpm millirpm,  *)
(* newtons millinewtons, and a dimensionless 0.4 is 400.  Products and     *)
(* quotients are rescaled by FMul and FDiv, which truncate toward zero.    *)
(* Indices and counts (gear, stage, array positions, rewindCharge) are     *)
(* plain integers.  Math.sin, Math.cos, Math.tan and Math.atan2 are        *)
(* computed by the rational approximations Sin, Tan and Atan2 below        *)
(* (absolute error below 0.004).                                           *)
(***************************************************************************)
EXTENDS Integers, Sequences, FiniteSets, TLC

(***************************************************************************)
(* Local constants.  CHOOSE val \in {e : x \in {a}} : TRUE is e where     *)
(* x = a, with a computed once: it stands for `const x = a;` followed by   *)
(* the code that computes e.  The constants of a function are read from    *)
(* the last line of its definition up to the first; constants that do not  *)
(* depend on each other share a level.                                     *)
(***************************************************************************)

(***************************************************************************)
(* Arithmetic on milli-units                                               *)
(***************************************************************************)
Abs(a) == IF a < 0 THEN -a ELSE a

Sign(a) == IF a > 0 THEN 1 ELSE IF a < 0 THEN -1 ELSE 0

Min(a, b) == CHOOSE val \in {IF x <= y THEN x ELSE y : x \in {a}, y \in {b}} : TRUE

Max(a, b) == CHOOSE val \in {IF x >= y THEN x ELSE y : x \in {a}, y \in {b}} : TRUE

\* trunc(x * y / d) for x >= y >= 0 and d > 0, computed without leaving
\* 32 bits: x is split into quotient and remainder by d
MulDivNat(x, y, d) == (x \div d) * y + ((x % d) * y) \div d

\* trunc(a * b / c) for c > 0
MulDiv(a, b, c) ==
  CHOOSE val \in { (IF (p < 0) = (q < 0) THEN 1 ELSE -1) *
            (IF Abs(p) >= Abs(q) THEN MulDivNat(Abs(p), Abs(q), c)
                                 ELSE MulDivNat(Abs(q), Abs(p), c))
        : p \in {a}, q \in {b} } : TRUE

\* the product a * b of two reals
FMul(a, b) == MulDiv(a, b, 1000)

\* the quotient a / b of two reals, b # 0
FDiv(a, b) ==
  CHOOSE val \in { Sign(y) * (IF Abs(y) <= 2000000 THEN MulDiv(x, 1000, Abs(y))
                                          ELSE MulDiv(x, 10, Abs(y) \div 100))
        : x \in {a}, y \in {b} } : TRUE

\* r + d * unit for the largest d in 0..15 that keeps the square within n;
\* needs r * r <= n < 2^31
SqrtDigit(n, r, unit) ==
  CHOOSE c \in {r + d * unit : d \in 0..15} :
    /\ c <= 46340 /\ c * c <= n
    /\ c = r + 15 * unit \/ c + unit > 46340 \/ (c + unit) * (c + unit) > n

\* floor(sqrt(n)) of an integer n in 0..2^31-1, one hexadecimal digit at a time
ISqrt(n) ==
  CHOOSE val \in {CHOOSE val \in {CHOOSE val \in {CHOOSE val \in {
    SqrtDigit(m, r2, 1)
  : r2 \in {SqrtDigit(m, r1, 16)}} : TRUE
  : r1 \in {SqrtDigit(m, r0, 256)}} : TRUE
  : r0 \in {SqrtDigit(m, 0, 4096)}} : TRUE
  : m \in {n}} : TRUE

\* Math.sqrt of a real: sqrt(a/1000) * 1000 = sqrt(1000 * a)
Sqrt(a) == CHOOSE val \in {IF x <= 2000000 THEN ISqrt(1000 * x) ELSE 10 * ISqrt(10 * x) : x \in {a}} : TRUE

\* Math.hypot of two reals
Hypot(a, b) ==
  CHOOSE val \in { IF x <= 30000 /\ y <= 30000
          THEN ISqrt(x * x + y * y)
          ELSE IF x <= 300000 /\ y <= 300000
          THEN 10 * ISqrt((x \div 10) * (x \div 10) + (y \div 10) * (y \div 10))
          ELSE 1000 * ISqrt((x \div 1000) * (x \div 1000) + (y \div 1000) * (y \div 1000))
        : x \in {Abs(a)}, y \in {Abs(b)} } : TRUE

\* Math.PI
PI == 3142

\* sin on [0, PI]: Bhaskara's 16 x (PI - x) / (5 PI^2 - 4 x (PI - x))
SinHalfTurn(x) ==
  CHOOSE val \in {FDiv(16 * p, 5 * FMul(PI, PI) - 4 * p) : p \in {FMul(x, PI - x)}} : TRUE

\* Math.sin
Sin(a) ==
  CHOOSE val \in {IF r <= PI THEN SinHalfTurn(r) ELSE -SinHalfTurn(r - PI) : r \in {a % (2 * PI)}} : TRUE

\* Math.cos
Cos(a) == Sin(a + PI \div 2)

\* Math.tan, away from the poles
Tan(a) == CHOOSE val \in {FDiv(Sin(x), Cos(x)) : x \in {a}} : TRUE

\* atan on [-1, 1]: r (PI/4 + 0.273 (1 - |r|))
AtanUnit(r) == CHOOSE val \in {FMul(x, PI \div 4 + FMul(273, 1000 - Abs(x))) : x \in {r}} : TRUE

\* Math.atan2(y, x) for x > 0
Atan2(y, x) ==
  CHOOSE val \in { IF Abs(p) <= q THEN AtanUnit(FDiv(p, q))
          ELSE Sign(p) * (PI \div 2 - AtanUnit(FDiv(q, Abs(p))))
        : p \in {y}, q \in {x} } : TRUE

(***************************************************************************)
(* data/terrains.ts                                                        *)
(***************************************************************************)
TerrainType == {"asphalt", "wet", "dirt", "sand", "grass"}

TERRAINS ==
  [t \in TerrainType |->
     CASE t = "asphalt" -> [friction |-> 1000, rollingResistance |-> 18]
       [] t = "wet"     -> [friction |-> 780,  rollingResistance |-> 22]
       [] t = "dirt"    -> [friction |-> 700,  rollingResistance |-> 30]
       [] t = "sand"    -> [friction |-> 600,  rollingResistance |-> 40]
       [] t = "grass"   -> [friction |-> 650,  rollingResistance |-> 35]]

(***************************************************************************)
(* physics/TireModel.ts                                                    *)
(***************************************************************************)
TireCompound == {"street", "sport", "semi"}

COMPOUND_GRIP ==
  [c \in TireCompound |->
     CASE c = "street" -> 950 [] c = "sport" -> 1050 [] c = "semi" -> 1150]

COMPOUND_WET_PENALTY ==
  [c \in TireCompound |->
     CASE c = "street" -> 850 [] c = "sport" -> 780 [] c = "semi" -> 700]

\* a faulty pressureGripFactor, which clamps the deviation from above only
pressureGripFactorOneSided(psi) ==
  1000 - FMul(Abs(Min(6000, psi - 33000)), 12)

pressureGripFactor(psi) ==
  CHOOSE val \in {1000 - FMul(Abs(delta), 12) : delta \in {Min(6000, Max(-6000, psi - 33000))}} : TRUE

tireGripForTerrain(setup, terrain, isFront) ==
  CHOOSE val \in { FMul(FMul(FMul(base, compoundGrip), wetPenalty), pressureGripFactor(psi))
        : base \in {TERRAINS[terrain].friction},
          compoundGrip \in {COMPOUND_GRIP[setup.compound]},
          wetPenalty \in {IF terrain = "wet" THEN COMPOUND_WET_PENALTY[setup.compound] ELSE 1000},
          psi \in {IF isFront THEN setup.pressureFrontPsi ELSE setup.pressureRearPsi} } : TRUE

frictionCircle(longitudinal, lateral) ==
  CHOOSE val \in { 1000 - FMul(slip, 400)
        : slip \in {Min(1000, Sqrt(FMul(longitudinal, longitudinal) + FMul(lateral, lateral)))} } : TRUE

(***************************************************************************)
(* data/cars.ts                                                            *)
(***************************************************************************)
CARS ==
  << [ id |-> "m3",
       massKg |-> 1720000,
       wheelbaseM |-> 2731,
       torqueCurve |-> << <<1000000, 240000>>, <<2000000, 330000>>, <<3500000, 410000>>,
                          <<5500000, 500000>>, <<7000000, 430000>> >>,
       gearRatios |-> <<3800, 2400, 1700, 1300, 1000, 860>>,
       finalDrive |-> 3420,
       wheelRadiusM |-> 330,
       tireSetup |-> [compound |-> "sport", pressureFrontPsi |-> 34000, pressureRearPsi |-> 33000],
       suspension |-> [rideHeight |-> 120, springRate |-> 700, damping |-> 600, antiRoll |-> 600] ],
     [ id |-> "carnival",
       massKg |-> 1985000,
       wheelbaseM |-> 3090,
       torqueCurve |-> << <<1000000, 250000>>, <<2000000, 320000>>, <<3500000, 360000>>,
                          <<5000000, 380000>>, <<6000000, 310000>> >>,
       gearRatios |-> <<3600, 2100, 1500, 1150, 850>>,
       finalDrive |-> 3600,
       wheelRadiusM |-> 340,
       tireSetup |-> [compound |-> "street", pressureFrontPsi |-> 36000, pressureRearPsi |-> 36000],
       suspension |-> [rideHeight |-> 180, springRate |-> 500, damping |-> 500, antiRoll |-> 400] ] >>

(***************************************************************************)
(* physics/Vehicle.ts: class Vehicle.  A vehicle is the record of the      *)
(* object's fields: state (VehicleState), tuning, manualMode, terrain,     *)
(* car and the private clutch.                                             *)
(***************************************************************************)
driftAssist == 700

tractionAssist == 600

maxSteerAngle == 550

handbrakeGripLoss == 550

revLimiter == 7200000

\* the VehicleState the constructor builds
NewVehicleState ==
  [ position |-> [x |-> 0, z |-> 0],
    velocity |-> [x |-> 0, z |-> 0],
    heading |-> 0,
    yawRate |-> 0,
    engineRpm |-> 1200000,
    gear |-> 1,
    wheelSpeed |-> 0,
    speed |-> 0,
    tireState |-> [slipAngle |-> 0, slipRatio |-> 0, combinedSlip |-> 0, gripFactor |-> 1000] ]

\* new Vehicle(car, tuning)
NewVehicle(car, tuning) ==
  [ state |-> NewVehicleState,
    tuning |-> tuning,
    manualMode |-> FALSE,
    terrain |-> "asphalt",
    car |-> car,
    clutch |-> 0 ]

\* Vehicle.reset(positionX, positionZ): tireState and clutch are not touched
reset(v, positionX, positionZ) ==
  [v EXCEPT !.state.position.x = positionX,
            !.state.position.z = positionZ,
            !.state.velocity.x = 0,
            !.state.velocity.z = 0,
            !.state.heading = 0,
            !.state.yawRate = 0,
            !.state.engineRpm = 1200000,
            !.state.gear = 1,
            !.state.wheelSpeed = 0,
            !.state.speed = 0]

RECURSIVE torqueLoopStepped(_, _, _)
\* a faulty for loop, which returns the torque of the breakpoint reached
\* without interpolating
torqueLoopStepped(curve, rpm, i) ==
  IF i > Len(curve) THEN curve[Len(curve)][2]
  ELSE IF rpm <= curve[i][1] THEN curve[i][2]
  ELSE torqueLoopStepped(curve, rpm, i + 1)

RECURSIVE torqueLoop(_, _, _)
\* the for loop of torqueAtRpm, from index i (1-based here, i - 1 in the code)
torqueLoop(curve, rpm, i) ==
  IF i > Len(curve) THEN curve[Len(curve)][2]
  ELSE CHOOSE val \in {
         IF rpm <= r2
         THEN CHOOSE val \in {t1 + FMul(t2 - t1, t) : t \in {FDiv(rpm - r1, r2 - r1)}} : TRUE
         ELSE torqueLoop(curve, rpm, i + 1)
       : r1 \in {curve[i - 1][1]},
         t1 \in {curve[i - 1][2]},
         r2 \in {curve[i][1]},
         t2 \in {curve[i][2]} } : TRUE

torqueAtRpm(car, rpm) ==
  IF rpm <= car.torqueCurve[1][1] THEN car.torqueCurve[1][2]
  ELSE torqueLoop(car.torqueCurve, rpm, 2)

\* a faulty updateAutomaticGear, which jumps to the top gear
updateAutomaticGearSkipping(rpm, gear, maxGear) ==
  IF rpm > 6500000 /\ gear < maxGear THEN maxGear
  ELSE IF rpm < 2200000 /\ gear > 1 THEN gear - 1
  ELSE gear

\* Vehicle.updateAutomaticGear: the new gear
updateAutomaticGear(rpm, gear, maxGear) ==
  IF rpm > 6500000 /\ gear < maxGear THEN gear + 1
  ELSE IF rpm < 2200000 /\ gear > 1 THEN gear - 1
  ELSE gear

\* a faulty shiftUp, which does not test the gear against gearRatios.length
shiftUpUnchecked(v) ==
  IF ~v.manualMode THEN v
  ELSE [v EXCEPT !.state.gear = v.state.gear + 1, !.clutch = 200]

\* a faulty shiftUp, which opens the clutch by half
shiftUpHalfSlip(v) ==
  IF ~v.manualMode THEN v
  ELSE IF v.state.gear < Len(v.tuning.gearRatios)
       THEN [v EXCEPT !.state.gear = v.state.gear + 1, !.clutch = 500]
       ELSE v

\* Vehicle.shiftUp()
shiftUp(v) ==
  IF ~v.manualMode THEN v
  ELSE IF v.state.gear < Len(v.tuning.gearRatios)
       THEN [v EXCEPT !.state.gear = v.state.gear + 1, !.clutch = 200]
       ELSE v

\* a faulty shiftDown, which does not test manualMode
shiftDownAnyMode(v) ==
  IF v.state.gear > 1
  THEN [v EXCEPT !.state.gear = v.state.gear - 1, !.clutch = 200]
  ELSE v

shiftDown(v) ==
  IF ~v.manualMode THEN v
  ELSE IF v.state.gear > 1
       THEN [v EXCEPT !.state.gear = v.state.gear - 1, !.clutch = 200]
       ELSE v

\* a faulty engineRpm assignment, without the rev limiter
engineRpmUnlimited(wheelRpm, driveRatio) == Max(1000000, FMul(wheelRpm, driveRatio) + 1000000)

\* the engineRpm assignment of update
engineRpmOf(wheelRpm, driveRatio) ==
  Max(1000000, Min(revLimiter, FMul(wheelRpm, driveRatio) + 1000000))

\* a faulty yaw clamp, twice as wide above 1
yawClampDoubled(assist) == 1000 + FMul(1000 - assist, 2400)

\* Vehicle.update, yawClamp for this.driftAssist
yawClampOf(assist) == 1000 + FMul(1000 - assist, 1200)

\* a faulty traction multiplier, which does not floor the slip excess at 0
tractionUnfloored(combinedSlip) == 1000 - FMul(tractionAssist, combinedSlip - 400)

\* Vehicle.update, the traction-assist multiplier of the velocity
tractionAt(combinedSlip) == 1000 - FMul(tractionAssist, Max(0, combinedSlip - 400))

\* Vehicle.update(dt, input)
update(v, dt, input) ==
  CHOOSE val \in {CHOOSE val \in {CHOOSE val \in {CHOOSE val \in {
  CHOOSE val \in {CHOOSE val \in {CHOOSE val \in {CHOOSE val \in {
  CHOOSE val \in {CHOOSE val \in {CHOOSE val \in {CHOOSE val \in {
  CHOOSE val \in {CHOOSE val \in {CHOOSE val \in {
    [v EXCEPT
       !.state = [ position |-> [x |-> state.position.x + FMul(velX, dt),
                                 z |-> state.position.z + FMul(velZ, dt)],
                   velocity |-> [x |-> velX, z |-> velZ],
                   heading |-> heading,
                   yawRate |-> yawRate,
                   engineRpm |-> engineRpm,
                   gear |-> gear,
                   wheelSpeed |-> wheelRpm,
                   speed |-> Hypot(velX, velZ),
                   tireState |-> [slipAngle |-> slipAngle, slipRatio |-> slipRatio,
                                  combinedSlip |-> combinedSlip, gripFactor |-> gripFactor] ],
       !.clutch = Max(0, v.clutch - dt * 2)]
  : velX \in {FMul(velX1, traction)},
    velZ \in {FMul(velZ1, traction)}} : TRUE
  : velX1 \in {state.velocity.x + FMul(FMul(forwardX, accelLong) + FMul(sideX, accelLat), dt)},
    velZ1 \in {state.velocity.z + FMul(FMul(forwardZ, accelLong) + FMul(sideZ, accelLat), dt)}} : TRUE
  : accelLong \in {FDiv(FMul(longitudinalForce, gripFactor), totalMass)},
    accelLat \in {FDiv(FMul(FMul(lateralForce, frontGrip), driftFactor), totalMass)}} : TRUE
  : lateralForce \in {FMul(-lateralSpeed * 4, rearGripAdjusted)},
    gripFactor \in {FMul(FMul(circle, rearGripAdjusted + frontGrip), 500)}} : TRUE
  : rearGripAdjusted \in {FMul(rearGrip, gripLoss)},
    driftFactor \in {IF combinedSlip > 550 \/ input.handbrake > 200 THEN 850 ELSE 1000},
    traction \in {tractionAt(combinedSlip)}} : TRUE
  : frontGrip \in {FMul(tireGripForTerrain(v.tuning.tireSetup, v.terrain, TRUE),
                        1000 - wtLongitudinal + FMul(wtLateral, 200))},
    rearGrip \in {FMul(tireGripForTerrain(v.tuning.tireSetup, v.terrain, FALSE),
                       1000 + wtLongitudinal - FMul(wtLateral, 200))},
    combinedSlip \in {Min(1000, Abs(slipAngle) + Abs(slipRatio))},
    circle \in {frictionCircle(Abs(slipRatio), Abs(slipAngle))}} : TRUE
  : wtLongitudinal \in {MulDiv(FMul(v.tuning.suspension.springRate, throttleForce - brakeForce),
                               4, 100000)},
    longitudinalForce \in {throttleForce - brakeForce - rolling},
    slipRatio \in {FDiv(throttleForce - brakeForce, Max(4000000, FMul(totalMass, 3000)))}} : TRUE
  : throttleForce \in {FMul(FDiv(driveTorque, wheelRadius), input.throttle)},
    heading \in {state.heading + FMul(yawRate, dt)}} : TRUE
  : driveTorque \in {FMul(FMul(engineTorque, driveRatio), 1000 - v.clutch)},
    yawRate \in {Max(-yawClamp, Min(yawClamp, state.yawRate + FMul(yawAccel, dt)))}} : TRUE
  : gear \in {IF ~v.manualMode
              THEN updateAutomaticGear(engineRpm, state.gear, Len(v.tuning.gearRatios))
              ELSE state.gear},
    engineTorque \in {FMul(torqueAtRpm(v.car, engineRpm), 1000 + FMul(v.tuning.engineStage, 120))},
    yawAccel \in {FMul(yawError, 2200 - v.tuning.suspension.damping) * 3}} : TRUE
  : engineRpm \in {engineRpmOf(wheelRpm, driveRatio)},
    yawError \in {yawDesired - state.yawRate}} : TRUE
  : wheelRpm \in {Max(0, FMul(FDiv(longitudinalSpeed, FMul(FMul(2000, PI), wheelRadius)), 60000))},
    rolling \in {FMul(FMul(FMul(TERRAINS[v.terrain].rollingResistance, longitudinalSpeed),
                           longitudinalSpeed), 500)},
    wtLateral \in {FMul(FMul(v.tuning.suspension.antiRoll, lateralSpeed), 2)},
    yawDesired \in {FMul(FDiv(longitudinalSpeed, v.car.wheelbaseM + 200), Tan(steerAngle))},
    slipAngle \in {Atan2(lateralSpeed, Abs(longitudinalSpeed) + 500)}} : TRUE
  : longitudinalSpeed \in {FMul(state.velocity.x, forwardX) + FMul(state.velocity.z, forwardZ)},
    lateralSpeed \in {FMul(state.velocity.x, sideX) + FMul(state.velocity.z, sideZ)},
    driveRatio \in {FMul(gearRatio, v.tuning.finalDrive)}} : TRUE
  : steerAngle \in {FMul(steerInput, maxSteerAngle)},
    forwardX \in {Sin(state.heading)},
    forwardZ \in {Cos(state.heading)},
    sideX \in {Sin(state.heading + PI \div 2)},
    sideZ \in {Cos(state.heading + PI \div 2)},
    gearRatio \in {IF state.gear \in 1..Len(v.tuning.gearRatios)
                   THEN v.tuning.gearRatios[state.gear] ELSE v.tuning.gearRatios[1]}} : TRUE
  : state \in {v.state},
    totalMass \in {FMul(v.car.massKg, 1000 - FMul(v.tuning.weightReduction, 80))},
    steerInput \in {Max(-1000, Min(1000, input.steer))},
    wheelRadius \in {v.car.wheelRadiusM},
    brakeForce \in {FMul(FMul(v.tuning.brakeStrength, input.brake), 12000000)},
    gripLoss \in {IF input.handbrake > 0 THEN handbrakeGripLoss ELSE 1000},
    yawClamp \in {yawClampOf(driftAssist)}} : TRUE

\* Game.loadTuning(car) with nothing saved
DefaultTuning(car) ==
  [ finalDrive |-> car.finalDrive,
    gearRatios |-> car.gearRatios,
    brakeBias |-> 600,
    brakeStrength |-> 1000,
    weightReduction |-> 0,
    engineStage |-> 0,
    suspension |-> car.suspension,
    tireSetup |-> car.tireSetup ]

(***************************************************************************)
(* tracks/RouteGraph.ts.  A RouteNode is a record; an optional field       *)
(* (left, right, destination) that the object does not have is absent from *)
(* the record's domain.  curvature is in 1e-6 rad/m (its values have four  *)
(* decimals); every other number is in milli-units.                        *)
(***************************************************************************)
Segment(id, length, curvature, slope, width, scenery, terrain) ==
  [id |-> id, length |-> length, curvature |-> curvature, slope |-> slope,
   width |-> width, scenery |-> scenery, terrain |-> terrain]

Node(id, stage, segment, left, right) ==
  [id |-> id, stage |-> stage, segment |-> segment, left |-> left, right |-> right]

\* the object literal of ROUTE_GRAPH: stages 1 to 4
ROUTE_GRAPH_LITERAL ==
  "s1" :> Node("s1", 1, Segment("s1", 900000, 1000, 2, 10000, 700, "asphalt"), "s2l", "s2r") @@
  "s2l" :> Node("s2l", 2, Segment("s2l", 850000, -2200, 4, 9000, 900, "wet"), "s3ll", "s3lr") @@
  "s2r" :> Node("s2r", 2, Segment("s2r", 800000, 2600, -3, 9000, 800, "dirt"), "s3rl", "s3rr") @@
  "s3ll" :> Node("s3ll", 3, Segment("s3ll", 780000, 3200, 6, 8500, 950, "wet"), "s4lll", "s4llr") @@
  "s3lr" :> Node("s3lr", 3, Segment("s3lr", 760000, -3400, 1, 8800, 850, "asphalt"), "s4lrl", "s4lrr") @@
  "s3rl" :> Node("s3rl", 3, Segment("s3rl", 750000, 3000, -4, 9000, 700, "dirt"), "s4rll", "s4rlr") @@
  "s3rr" :> Node("s3rr", 3, Segment("s3rr", 770000, -2800, 2, 9200, 600, "sand"), "s4rrl", "s4rrr") @@
  "s4lll" :> Node("s4lll", 4, Segment("s4lll", 720000, 3500, 6, 8000, 1000, "wet"), "s5llll", "s5lllr") @@
  "s4llr" :> Node("s4llr", 4, Segment("s4llr", 710000, -3600, 4, 8200, 900, "wet"), "s5llrl", "s5llrr") @@
  "s4lrl" :> Node("s4lrl", 4, Segment("s4lrl", 700000, 3200, -3, 8300, 800, "asphalt"), "s5lrll", "s5lrlr") @@
  "s4lrr" :> Node("s4lrr", 4, Segment("s4lrr", 700000, -3500, -2, 8400, 700, "asphalt"), "s5lrrl", "s5lrrr") @@
  "s4rll" :> Node("s4rll", 4, Segment("s4rll", 690000, 3000, -4, 8600, 600, "dirt"), "s5rlll", "s5rllr") @@
  "s4rlr" :> Node("s4rlr", 4, Segment("s4rlr", 680000, -3200, -3, 8600, 600, "dirt"), "s5rlrl", "s5rlrr") @@
  "s4rrl" :> Node("s4rrl", 4, Segment("s4rrl", 670000, 2800, 2, 8800, 500, "sand"), "s5rrll", "s5rrlr") @@
  "s4rrr" :> Node("s4rrr", 4, Segment("s4rrr", 660000, -3000, 3, 8800, 500, "sand"), "s5rrrl", "s5rrrr")

DESTINATIONS == <<"A", "B", "C", "D", "E">>

stage5Nodes ==
  <<"s5llll", "s5lllr", "s5llrl", "s5llrr", "s5lrll", "s5lrlr", "s5lrrl", "s5lrrr",
    "s5rlll", "s5rllr", "s5rlrl", "s5rlrr", "s5rrll", "s5rrlr", "s5rrrl", "s5rrrr">>

\* a faulty forEach body, which stores the last leaf without a destination
Stage5NodeUnlabelled(id, index) ==
  IF index = 15
  THEN [id |-> id, stage |-> 5, segment |-> Segment(id, 605000, -2500, -2, 8200, 400, "asphalt")]
  ELSE [id |-> id, stage |-> 5, segment |-> Segment(id, 650000, 2500, 0, 8200, 400, "grass"),
        destination |-> DESTINATIONS[(index % Len(DESTINATIONS)) + 1]]

\* a faulty forEach body, which takes the letter by index mod 4
Stage5NodeByFour(id, index) ==
  [ id |-> id,
    stage |-> 5,
    segment |-> Segment(id,
                        650000 - (index % 4) * 15000,
                        (IF index % 2 = 0 THEN 1 ELSE -1) * (2500 + (index % 3) * 400),
                        ((index % 3) - 1) * 2,
                        8200,
                        400,
                        IF index % 2 = 0 THEN "grass" ELSE "asphalt"),
    destination |-> DESTINATIONS[(index % 4) + 1] ]

\* the node stage5Nodes.forEach stores for (id, index), index from 0
Stage5Node(id, index) ==
  [ id |-> id,
    stage |-> 5,
    segment |-> Segment(id,
                        650000 - (index % 4) * 15000,
                        (IF index % 2 = 0 THEN 1 ELSE -1) * (2500 + (index % 3) * 400),
                        ((index % 3) - 1) * 2,
                        8200,
                        400,
                        IF index % 2 = 0 THEN "grass" ELSE "asphalt"),
    destination |-> DESTINATIONS[(index % Len(DESTINATIONS)) + 1] ]

\* ROUTE_GRAPH once the module has loaded
ROUTE_GRAPH ==
  [id \in DOMAIN ROUTE_GRAPH_LITERAL \cup {stage5Nodes[i] : i \in 1..Len(stage5Nodes)} |->
     IF id \in DOMAIN ROUTE_GRAPH_LITERAL
     THEN ROUTE_GRAPH_LITERAL[id]
     ELSE Stage5Node(id, (CHOOSE i \in 1..Len(stage5Nodes) : stage5Nodes[i] = id) - 1)]

NodeIds == DOMAIN ROUTE_GRAPH

\* whether the optional field f of a node is set
Has(node, f) == f \in DOMAIN node

\* property names every object literal inherits from Object.prototype, of
\* which these stand for all
ObjectPrototypeKeys == {"constructor", "toString", "__proto__"}

\* undefined
Undefined == [undefined |-> TRUE]

\* ROUTE_GRAPH[id] for any string: a node, an inherited property (an object
\* with none of a node's fields), or undefined
routeGraphAt(id) ==
  IF id \in NodeIds THEN ROUTE_GRAPH[id]
  ELSE IF id \in ObjectPrototypeKeys THEN [inherited |-> id]
  ELSE Undefined

RECURSIVE pathLoop(_, _, _, _)
\* the while loop of buildRoutePath from currentId, with the nodes and total
\* so far.  leftFirst is TRUE in the code (node.left ?? node.right).  A loop
\* that has pushed more nodes than the graph has is at a node for the
\* second time and never ends: returns is FALSE then.  The empty string is
\* falsy and ends the loop.  Reading node.segment.length of a node that is
\* undefined or has no segment throws a TypeError: throws is TRUE then.
pathLoop(currentId, nodes, total, leftFirst) ==
  IF Len(nodes) > Cardinality(NodeIds)
  THEN [nodes |-> nodes, totalLength |-> total, destination |-> "", returns |-> FALSE,
        throws |-> FALSE]
  ELSE IF currentId = ""
  THEN [nodes |-> nodes, totalLength |-> total, destination |-> "", returns |-> TRUE,
        throws |-> FALSE]
  ELSE IF ~Has(routeGraphAt(currentId), "segment")
  THEN [nodes |-> Append(nodes, routeGraphAt(currentId)), totalLength |-> total,
        destination |-> "", returns |-> FALSE, throws |-> TRUE]
  ELSE
  CHOOSE val \in {CHOOSE val \in {
    IF Has(node, "destination")
    THEN [nodes |-> nodes1, totalLength |-> total1, destination |-> node.destination,
          returns |-> TRUE, throws |-> FALSE]
    ELSE IF Has(node, first) THEN pathLoop(node[first], nodes1, total1, leftFirst)
    ELSE IF Has(node, second) THEN pathLoop(node[second], nodes1, total1, leftFirst)
    ELSE [nodes |-> nodes1, totalLength |-> total1, destination |-> "", returns |-> TRUE,
          throws |-> FALSE]
  : nodes1 \in {Append(nodes, node)},
    total1 \in {total + node.segment.length} } : TRUE
  : node \in {routeGraphAt(currentId)},
    first \in {IF leftFirst THEN "left" ELSE "right"},
    second \in {IF leftFirst THEN "right" ELSE "left"} } : TRUE

\* a faulty buildRoutePath, which descends via the right child first
buildRoutePathRight(startId) == pathLoop(startId, <<>>, 0, FALSE)

buildRoutePath(startId) == pathLoop(startId, <<>>, 0, TRUE)

\* a faulty nextNodeFromChoice, which takes the other child
nextNodeFromChoiceSwapped(currentId, choice) ==
  IF choice = "left"
  THEN (IF Has(routeGraphAt(currentId), "right") THEN routeGraphAt(currentId).right ELSE currentId)
  ELSE (IF Has(routeGraphAt(currentId), "left") THEN routeGraphAt(currentId).left ELSE currentId)

nextNodeFromChoice(currentId, choice) ==
  CHOOSE val \in { IF choice = "left"
          THEN (IF Has(node, "left") THEN node.left ELSE currentId)
          ELSE (IF Has(node, "right") THEN node.right ELSE currentId)
        : node \in {routeGraphAt(currentId)} } : TRUE

\* nextNodeFromChoice throws a TypeError, reading node.left or node.right of
\* undefined, instead of returning
nextNodeFromChoiceThrows(currentId) == routeGraphAt(currentId) = Undefined

EmptySamples == [points |-> <<>>, widths |-> <<>>, terrainTypes |-> <<>>, distances |-> <<>>]

\* a faulty pass of the inner loop, which advances total by the chord of a
\* curved segment instead of by 20
forPassChord(node, c) ==
  [ x |-> c.x, y |-> c.y, z |-> c.z + 20000, heading |-> c.heading,
    total |-> c.total + (IF node.segment.curvature = 0 THEN 20000 ELSE 19999) ]

\* one pass of the inner for loop of buildRouteSamples, on the cursor
\* c = [x, y, z, heading, total]
forPass(node, c) ==
  CHOOSE val \in { [ x |-> c.x + FMul(Sin(heading), 20000),
            y |-> c.y + FMul(node.segment.slope, 20000),
            z |-> c.z + FMul(Cos(heading), 20000),
            heading |-> heading,
            total |-> c.total + 20000 ]
        : heading \in {c.heading + MulDiv(node.segment.curvature, 20000, 1000000)} } : TRUE

RECURSIVE forLoop(_, _, _)
\* the cursors after each of n passes of the inner loop entered with c
forLoop(node, c, n) ==
  IF n <= 0 THEN <<>>
  ELSE IF n = 1 THEN CHOOSE val \in {<<forPass(node, c0)>> : c0 \in {c}} : TRUE
  ELSE CHOOSE val \in {CHOOSE val \in {
         first \o forLoop(node, first[h], n - h)
       : first \in {forLoop(node, c, h)} } : TRUE
       : h \in {n \div 2} } : TRUE

RECURSIVE nodeLoop(_, _, _, _)
\* nodes.forEach of buildRouteSamples from the k-th node
nodeLoop(nodes, k, c, out) ==
  IF k > Len(nodes) THEN out
  ELSE CHOOSE val \in {CHOOSE val \in {CHOOSE val \in {
         nodeLoop(nodes, k + 1, cursor, out1)
       : cursor \in {IF steps > 0 THEN cs[steps] ELSE c},
         out1 \in {[ points |-> out.points
                                \o [i \in 1..steps |-> [x |-> cs[i].x, y |-> cs[i].y, z |-> cs[i].z]],
                     widths |-> out.widths \o [i \in 1..steps |-> node.segment.width],
                     terrainTypes |-> out.terrainTypes
                                      \o [i \in 1..steps |-> node.segment.terrain],
                     distances |-> out.distances \o [i \in 1..steps |-> cs[i].total] ]} } : TRUE
       : cs \in {forLoop(node, c, steps)} } : TRUE
       : node \in {nodes[k]},
         steps \in {nodes[k].segment.length \div 20000} } : TRUE

\* a faulty buildRouteSamples, which gives every sample the width of the
\* first node
buildRouteSamplesFirstWidth(nodes) ==
  CHOOSE val \in {
    [r EXCEPT !.widths = [i \in 1..Len(r.widths) |-> nodes[1].segment.width]]
  : r \in {nodeLoop(nodes, 1, [x |-> 0, y |-> 0, z |-> 0, heading |-> 0, total |-> 0],
                    EmptySamples)} } : TRUE

buildRouteSamples(nodes) ==
  nodeLoop(nodes, 1, [x |-> 0, y |-> 0, z |-> 0, heading |-> 0, total |-> 0], EmptySamples)

\* buildRouteSamples(buildRoutePath(id).nodes) for every node id, as resetRoute
\* computes it: the graph never changes, so the samples of a node are the
\* same each time a stage starts there
routeSamplesFrom == [id \in NodeIds |-> buildRouteSamples(buildRoutePath(id).nodes)]

(***************************************************************************)
(* input/InputManager.ts.  An InputManager is the record [keys, pad,       *)
(* pressed]: the set of key codes held down, the state of the first        *)
(* gamepad (null when none is connected) and the set of actions consume    *)
(* has latched.  The keyboard mapping is DEFAULT_MAPPING.                  *)
(***************************************************************************)
\* null, where a string may stand
Null == "null"

\* null, where an object may stand
NullObject == [null |-> TRUE]

InputAction ==
  {"throttle", "brake", "steer", "handbrake", "shiftUp", "shiftDown", "rewind", "camera", "pause"}

DEFAULT_MAPPING ==
  [ keyboard |->
      [ throttle |-> {"KeyW", "ArrowUp"},
        brake |-> {"KeyS", "ArrowDown"},
        steer |-> {"ArrowLeft", "KeyA", "ArrowRight", "KeyD"},
        handbrake |-> {"Space"},
        shiftDown |-> {"KeyQ"},
        shiftUp |-> {"KeyE"},
        rewind |-> {"KeyR"},
        camera |-> {"KeyC"},
        pause |-> {"Escape"} ] ]

NewInputManager == [keys |-> {}, pad |-> NullObject, pressed |-> {}]

isKeyDown(input, keys) == keys \cap input.keys # {}

\* InputManager.getState(); a held button or key reads as TRUE, an axis as a number
getState(input) ==
  CHOOSE val \in {CHOOSE val \in {CHOOSE val \in {
      IF padState = NullObject THEN k
      ELSE [ throttle |-> Max(k.throttle, padState.throttle),
             brake |-> Max(k.brake, padState.brake),
             steer |-> IF Abs(padState.steer) > Abs(k.steer) THEN padState.steer ELSE k.steer,
             handbrake |-> Max(k.handbrake, padState.handbrake),
             shiftDown |-> k.shiftDown \/ padState.shiftDown,
             shiftUp |-> k.shiftUp \/ padState.shiftUp,
             rewind |-> k.rewind \/ padState.rewind,
             camera |-> k.camera \/ padState.camera,
             pause |-> k.pause \/ padState.pause ]
    : padState \in {input.pad} } : TRUE
    : k \in {[ throttle |-> IF isKeyDown(input, kb.throttle) THEN 1000 ELSE 0,
               brake |-> IF isKeyDown(input, kb.brake) THEN 1000 ELSE 0,
               steer |-> (IF input.keys \cap {"ArrowLeft", "KeyA"} # {} THEN -1000 ELSE 0)
                         + (IF input.keys \cap {"ArrowRight", "KeyD"} # {} THEN 1000 ELSE 0),
               handbrake |-> IF isKeyDown(input, kb.handbrake) THEN 1000 ELSE 0,
               shiftDown |-> isKeyDown(input, kb.shiftDown),
               shiftUp |-> isKeyDown(input, kb.shiftUp),
               rewind |-> isKeyDown(input, kb.rewind),
               camera |-> isKeyDown(input, kb.camera),
               pause |-> isKeyDown(input, kb.pause) ]} } : TRUE
    : kb \in {DEFAULT_MAPPING.keyboard} } : TRUE

\* Boolean(state[action]) of consume
Active(input, action) ==
  CHOOSE val \in {
      CASE action = "throttle" -> st.throttle # 0
        [] action = "brake" -> st.brake # 0
        [] action = "steer" -> st.steer # 0
        [] action = "handbrake" -> st.handbrake # 0
        [] action = "shiftUp" -> st.shiftUp
        [] action = "shiftDown" -> st.shiftDown
        [] action = "rewind" -> st.rewind
        [] action = "camera" -> st.camera
        [] action = "pause" -> st.pause
    : st \in {getState(input)} } : TRUE

\* InputManager.consume(action): the manager afterwards and the value returned
consume(input, action) ==
  CHOOSE val \in {
      IF active /\ action \notin input.pressed
      THEN [input |-> [input EXCEPT !.pressed = input.pressed \cup {action}], fired |-> TRUE]
      ELSE IF ~active
      THEN [input |-> [input EXCEPT !.pressed = input.pressed \ {action}], fired |-> FALSE]
      ELSE [input |-> input, fired |-> FALSE]
    : active \in {Active(input, action)} } : TRUE

(***************************************************************************)
(* game/Game.ts: class Game.  A game is the record of the object's fields; *)
(* its methods are operators from a game to the game afterwards.  Three    *)
(* fields stand for the browser: input (the InputManager), overlay (what   *)
(* renderOverlay last put on screen: display, panel, and the garage form   *)
(* values) and localStorage.  The field probe is not a field of the        *)
(* program: the methods note in it what they did during the current frame  *)
(* and never read it.  Renderer, Hud and audio calls only produce output   *)
(* and are left out.                                                       *)
(***************************************************************************)
stageTimerBonus == 25000

GameState ==
  {"start", "select", "garage", "countdown", "race", "checkpoint", "fork", "finish",
   "results", "pause"}

NoProbe ==
  [ trace |-> <<>>,           \* the calls of vehicle.update and updateProgress, in order
    stepped |-> FALSE,        \* vehicle.update ran
    shiftUpHeld |-> FALSE,    \* inputState.shiftUp of a frame that stepped
    shiftDownHeld |-> FALSE,
    shiftUpCalled |-> FALSE,  \* vehicle.shiftUp() was invoked
    shiftDownCalled |-> FALSE,
    rewound |-> FALSE,        \* tryRewind restored a snapshot
    restored |-> NullObject,  \* the snapshot it restored
    rewindRequest |-> NullObject,   \* tryRewind was called: the charge and the buffer's length
                                    \* it found, and whether it left the game as it was
    progress |-> "none",      \* updateProgress: "none", "timeout" or "ran"
    oobIn |-> NullObject,           \* position, velocity, timer and width entering the bounds check
    oobOut |-> NullObject,          \* position, velocity and timer leaving it
    hits |-> 0,               \* obstacles hit
    road |-> NullObject,      \* the stage node and distance of the sample lookup, and the
                              \* width and terrain it gave
    penalised |-> NullObject, \* the timer after the bounds check and the obstacles
    bonus |-> FALSE,          \* the checkpoint bonus was added
    fork |-> NullObject,      \* the fork block ran: the position.x it compared
    advanced |-> Null ]       \* the choice advanceStage was called with

\* the value an <input type="range" min max step> holds after being set to v
RangeValue(v, min, max, step) ==
  CHOOSE val \in {CHOOSE val \in {
    IF 2 * (c - lo) >= step /\ lo + step <= max THEN lo + step ELSE lo
  : lo \in {min + ((c - min) \div step) * step} } : TRUE
  : c \in {Max(min, Min(max, v))} } : TRUE

\* the values renderOverlay writes into the garage form
GarageForm(v) ==
  [ manualMode |-> v.manualMode,
    compound |-> v.tuning.tireSetup.compound,
    pressureFrontPsi |-> RangeValue(v.tuning.tireSetup.pressureFrontPsi, 28000, 38000, 1000),
    pressureRearPsi |-> RangeValue(v.tuning.tireSetup.pressureRearPsi, 28000, 38000, 1000),
    finalDrive |-> RangeValue(v.tuning.finalDrive, 2800, 4500, 50),
    brakeBias |-> RangeValue(v.tuning.brakeBias, 500, 700, 20),
    brakeStrength |-> RangeValue(v.tuning.brakeStrength, 800, 1300, 50),
    weightReduction |-> RangeValue(v.tuning.weightReduction, 0, 3000, 1000),
    engineStage |-> RangeValue(v.tuning.engineStage, 0, 3000, 1000) ]

renderOverlay(this) ==
  CHOOSE val \in {
    [g EXCEPT !.overlay =
       IF g.state \in {"start", "select", "fork", "finish", "results", "pause"}
       THEN [display |-> "flex", panel |-> g.state, form |-> NullObject]
       ELSE IF g.state = "garage"
       THEN [display |-> "flex", panel |-> "garage", form |-> GarageForm(g.vehicle)]
       ELSE [display |-> "none", panel |-> "", form |-> NullObject]]
  : g \in {this} } : TRUE

\* the closure updateTuning of the garage panel
updateTuning(this) ==
  CHOOSE val \in {CHOOSE val \in {
    [g EXCEPT !.vehicle.manualMode = f.manualMode,
              !.vehicle.tuning.tireSetup.compound = f.compound,
              !.vehicle.tuning.tireSetup.pressureFrontPsi = f.pressureFrontPsi,
              !.vehicle.tuning.tireSetup.pressureRearPsi = f.pressureRearPsi,
              !.vehicle.tuning.finalDrive = f.finalDrive,
              !.vehicle.tuning.brakeBias = f.brakeBias,
              !.vehicle.tuning.brakeStrength = f.brakeStrength,
              !.vehicle.tuning.weightReduction = f.weightReduction,
              !.vehicle.tuning.engineStage = f.engineStage]
  : f \in {g.overlay.form} } : TRUE
  : g \in {this} } : TRUE

loadTuning(g, car) ==
  IF g.localStorage[car.id] # NullObject THEN g.localStorage[car.id] ELSE DefaultTuning(car)

saveTuning(g, car, tuning) == [g EXCEPT !.localStorage[car.id] = tuning]

\* Math.random() of createObstacles: draw number i (from 0) of the run rnd
Randoms == <<100, 900>>

Random(rnd, i) == Randoms[((rnd + i) % Len(Randoms)) + 1]

RECURSIVE obstacleLoop(_, _, _, _)
\* the for loop of createObstacles from distance i, before the k-th draw
obstacleLoop(i, end, rnd, k) ==
  IF i < end
  THEN <<[distance |-> i, lateral |-> FMul(Random(rnd, k) - 500, 5000), hit |-> FALSE]>>
       \o obstacleLoop(i + 500000, end, rnd, k + 1)
  ELSE <<>>

createObstacles(this, rnd) ==
  CHOOSE val \in {
    [g EXCEPT !.obstacles =
       IF g.routeSamples = NullObject \/ Len(g.routeSamples.distances) = 0 THEN <<>>
       ELSE obstacleLoop(600000, g.routeSamples.distances[Len(g.routeSamples.distances)], rnd, 0)]
  : g \in {this} } : TRUE

\* a faulty resetRoute, which pushes the new samples onto the arrays it holds
resetRouteInPlace(this, rnd) ==
  CHOOSE val \in {CHOOSE val \in {
    createObstacles(
      [g EXCEPT !.destination = buildRoutePath(g.currentNodeId).destination,
                !.routeSamples =
                   IF held = NullObject THEN new
                   ELSE [ points |-> held.points \o new.points,
                          widths |-> held.widths \o new.widths,
                          terrainTypes |-> held.terrainTypes \o new.terrainTypes,
                          distances |-> held.distances \o new.distances ],
                !.stageProgress = [node |-> ROUTE_GRAPH[g.currentNodeId], distance |-> 0]],
      rnd)
  : held \in {g.routeSamples}, new \in {routeSamplesFrom[g.currentNodeId]} } : TRUE
  : g \in {this} } : TRUE

\* Game.resetRoute()
resetRoute(this, rnd) ==
  CHOOSE val \in {CHOOSE val \in {
    createObstacles(
      [g EXCEPT !.destination = path.destination,
                !.routeSamples = routeSamplesFrom[g.currentNodeId],
                !.stageProgress = [node |-> ROUTE_GRAPH[g.currentNodeId], distance |-> 0]],
      rnd)
  : path \in {buildRoutePath(g.currentNodeId)} } : TRUE
  : g \in {this} } : TRUE

RECURSIVE firstFrom(_, _, _, _)
\* the first position in lo..hi whose entry is >= distance, 0 when there is none
firstFrom(distances, distance, lo, hi) ==
  IF lo > hi THEN 0
  ELSE IF lo = hi THEN (IF distances[lo] >= distance THEN lo ELSE 0)
  ELSE CHOOSE val \in {CHOOSE val \in {
         IF left # 0 THEN left ELSE firstFrom(distances, distance, mid + 1, hi)
       : left \in {firstFrom(distances, distance, lo, mid)} } : TRUE
       : mid \in {(lo + hi) \div 2} } : TRUE

\* a faulty findIndex, which passes over an entry equal to distance
findIndexAbove(distances, distance) == firstFrom(distances, distance + 1, 1, Len(distances))

\* distances.findIndex((d) => d >= distance); 0 stands for -1
findIndex(distances, distance) == firstFrom(distances, distance, 1, Len(distances))

getSampleAtDistance(g, distance) ==
  IF g.routeSamples = NullObject THEN NullObject
  ELSE CHOOSE val \in {CHOOSE val \in {
         [ point |-> g.routeSamples.points[idx],
           width |-> g.routeSamples.widths[idx],
           terrain |-> g.routeSamples.terrainTypes[idx] ]
       : idx \in {IF index = 0 THEN Len(g.routeSamples.distances) ELSE index} } : TRUE
       : index \in {findIndex(g.routeSamples.distances, distance)} } : TRUE

startRace(this, rnd) ==
  CHOOSE val \in {CHOOSE val \in {
    [g1 EXCEPT !.overlay.display = "none"]
  : g1 \in {resetRoute([g EXCEPT !.state = "countdown",
                                 !.countdown = 3000,
                                 !.timer = 55000,
                                 !.rewindCharge = 1,
                                 !.rewindBuffer = <<>>,
                                 !.currentNodeId = "s1",
                                 !.vehicle = reset(g.vehicle, 0, 0)],
                       rnd)} } : TRUE
  : g \in {this} } : TRUE

\* a faulty togglePause, which leaves the state as it is when pausing
togglePauseFlagOnly(this) ==
  CHOOSE val \in {
    renderOverlay([g EXCEPT !.isPaused = isPaused,
                            !.state = IF ~isPaused /\ g.state = "pause" THEN "race"
                                      ELSE g.state])
  : g \in {this}, isPaused \in {~this.isPaused} } : TRUE

\* Game.togglePause()
togglePause(this) ==
  CHOOSE val \in {
    renderOverlay([g EXCEPT !.isPaused = isPaused,
                            !.state = IF isPaused THEN "pause"
                                      ELSE IF g.state = "pause" THEN "race"
                                      ELSE g.state])
  : g \in {this}, isPaused \in {~this.isPaused} } : TRUE

recordRewindSnapshot(this, now) ==
  CHOOSE val \in {CHOOSE val \in {
    [g EXCEPT !.rewindBuffer =
       SelectSeq(Append(g.rewindBuffer, snap), LAMBDA e : now - e.timestamp < 3000)]
  : snap \in {[ timestamp |-> now,
                positionX |-> g.vehicle.state.position.x,
                positionZ |-> g.vehicle.state.position.z,
                heading |-> g.vehicle.state.heading,
                velocityX |-> g.vehicle.state.velocity.x,
                velocityZ |-> g.vehicle.state.velocity.z,
                yawRate |-> g.vehicle.state.yawRate,
                gear |-> g.vehicle.state.gear,
                engineRpm |-> g.vehicle.state.engineRpm,
                stageDistance |-> g.stageProgress.distance ]} } : TRUE
  : g \in {this} } : TRUE

\* a faulty tryRewind, which does not test rewindCharge
tryRewindUncharged(this) ==
  IF Len(this.rewindBuffer) = 0 THEN this
  ELSE [this EXCEPT !.vehicle.state.position.x = this.rewindBuffer[1].positionX,
                    !.vehicle.state.position.z = this.rewindBuffer[1].positionZ,
                    !.vehicle.state.heading = this.rewindBuffer[1].heading,
                    !.vehicle.state.velocity.x = this.rewindBuffer[1].velocityX,
                    !.vehicle.state.velocity.z = this.rewindBuffer[1].velocityZ,
                    !.vehicle.state.yawRate = this.rewindBuffer[1].yawRate,
                    !.vehicle.state.gear = this.rewindBuffer[1].gear,
                    !.vehicle.state.engineRpm = this.rewindBuffer[1].engineRpm,
                    !.stageProgress.distance = this.rewindBuffer[1].stageDistance,
                    !.rewindCharge = this.rewindCharge - 1,
                    !.rewindBuffer = <<>>,
                    !.probe.rewound = TRUE]

tryRewind(this) ==
  CHOOSE val \in {
    IF g.rewindCharge <= 0 \/ Len(g.rewindBuffer) = 0 THEN g
    ELSE CHOOSE val \in {
           [g EXCEPT !.vehicle.state.position.x = snapshot.positionX,
                     !.vehicle.state.position.z = snapshot.positionZ,
                     !.vehicle.state.heading = snapshot.heading,
                     !.vehicle.state.velocity.x = snapshot.velocityX,
                     !.vehicle.state.velocity.z = snapshot.velocityZ,
                     !.vehicle.state.yawRate = snapshot.yawRate,
                     !.vehicle.state.gear = snapshot.gear,
                     !.vehicle.state.engineRpm = snapshot.engineRpm,
                     !.stageProgress.distance = snapshot.stageDistance,
                     !.rewindCharge = g.rewindCharge - 1,
                     !.rewindBuffer = <<>>,
                     !.probe.rewound = TRUE,
                     !.probe.restored = snapshot]
         : snapshot \in {g.rewindBuffer[1]} } : TRUE
  : g \in {this} } : TRUE

cycleCamera(g) == [g EXCEPT !.cameraModeIndex = (g.cameraModeIndex + 1) % 2]

advanceStage(this, choice, rnd) ==
  CHOOSE val \in {CHOOSE val \in {CHOOSE val \in {
    IF Has(nextNode, "destination")
    THEN renderOverlay([g EXCEPT !.state = "finish", !.checkpointMessageTimer = 3000])
    ELSE CHOOSE val \in {
           [g1 EXCEPT !.rewindCharge = 1, !.state = "race"]
         : g1 \in {resetRoute([g EXCEPT !.currentNodeId = nextId,
                                        !.stageProgress = [node |-> nextNode, distance |-> 0],
                                        !.vehicle = reset(g.vehicle, 0, 0)],
                              rnd)} } : TRUE
  : nextNode \in {ROUTE_GRAPH[nextId]} } : TRUE
  : nextId \in {nextNodeFromChoice(g.stageProgress.node.id, choice)} } : TRUE
  : g \in {[this EXCEPT !.probe.advanced = choice]} } : TRUE

\* a faulty out-of-bounds statement, which penalises without moving the car back
boundsCheckNoClamp(g, roadWidth) ==
  IF Abs(g.vehicle.state.position.x) > roadWidth
  THEN [g EXCEPT !.vehicle.state.velocity.x = FMul(g.vehicle.state.velocity.x, 400),
                 !.vehicle.state.velocity.z = FMul(g.vehicle.state.velocity.z, 600),
                 !.timer = Max(0, g.timer - 1500)]
  ELSE g

\* updateProgress, the out-of-bounds statement
boundsCheck(g, roadWidth) ==
  IF Abs(g.vehicle.state.position.x) > roadWidth
  THEN [g EXCEPT !.vehicle.state.position.x = Sign(g.vehicle.state.position.x) * roadWidth,
                 !.vehicle.state.velocity.x = FMul(g.vehicle.state.velocity.x, 400),
                 !.vehicle.state.velocity.z = FMul(g.vehicle.state.velocity.z, 600),
                 !.timer = Max(0, g.timer - 1500)]
  ELSE g

RECURSIVE obstaclesForEachAgain(_, _)
\* a faulty forEach, which does not skip the obstacles already hit
obstaclesForEachAgain(this, k) ==
  CHOOSE val \in {
    IF k > Len(g.obstacles) THEN g
    ELSE IF Abs(g.stageProgress.distance - g.obstacles[k].distance) < 8000
            /\ Abs(g.vehicle.state.position.x - g.obstacles[k].lateral) < 2000
    THEN obstaclesForEachAgain(
           [g EXCEPT !.obstacles[k].hit = TRUE,
                     !.vehicle.state.velocity.z = FMul(g.vehicle.state.velocity.z, 400),
                     !.timer = Max(0, g.timer - 2000),
                     !.probe.hits = g.probe.hits + 1],
           k + 1)
    ELSE obstaclesForEachAgain(g, k + 1)
  : g \in {this} } : TRUE

RECURSIVE obstaclesForEach(_, _)
\* updateProgress, obstacles.forEach from the k-th obstacle
obstaclesForEach(this, k) ==
  CHOOSE val \in {
    IF k > Len(g.obstacles) THEN g
    ELSE IF g.obstacles[k].hit THEN obstaclesForEach(g, k + 1)
    ELSE IF Abs(g.stageProgress.distance - g.obstacles[k].distance) < 8000
            /\ Abs(g.vehicle.state.position.x - g.obstacles[k].lateral) < 2000
    THEN obstaclesForEach(
           [g EXCEPT !.obstacles[k].hit = TRUE,
                     !.vehicle.state.velocity.z = FMul(g.vehicle.state.velocity.z, 400),
                     !.timer = Max(0, g.timer - 2000),
                     !.probe.hits = g.probe.hits + 1],
           k + 1)
    ELSE obstaclesForEach(g, k + 1)
  : g \in {this} } : TRUE

\* what the bounds check reads and writes
BoundsView(g, roadWidth) ==
  [ x |-> g.vehicle.state.position.x,
    velocityX |-> g.vehicle.state.velocity.x,
    velocityZ |-> g.vehicle.state.velocity.z,
    timer |-> g.timer,
    width |-> roadWidth ]

\* updateProgress from the stage-end test on
stageEnd(this, dt, stageLength, rnd) ==
  CHOOSE val \in {CHOOSE val \in {
    IF atEnd /\ Has(g.stageProgress.node, "destination")
    THEN renderOverlay([g EXCEPT !.state = "finish", !.checkpointMessageTimer = 3000])
    ELSE CHOOSE val \in {CHOOSE val \in {CHOOSE val \in {
           IF g2.state = "fork"
           THEN CHOOSE val \in {
                  IF g3.forkDistance <= 0 /\ g3.forkChoice # Null
                  THEN advanceStage(g3, g3.forkChoice, rnd)
                  ELSE g3
                : g3 \in {[g2 EXCEPT
                             !.probe.fork = [x |-> g2.vehicle.state.position.x],
                             !.forkDistance = g2.forkDistance - FMul(g2.vehicle.state.speed, dt),
                             !.forkChoice = IF g2.vehicle.state.position.x < -1200 THEN "left"
                                            ELSE IF g2.vehicle.state.position.x > 1200 THEN "right"
                                            ELSE g2.forkChoice]} } : TRUE
           ELSE g2
         : g2 \in {IF g1.state = "checkpoint"
                   THEN (IF t2 <= 0
                         THEN renderOverlay([g1 EXCEPT !.checkpointMessageTimer = t2,
                                                       !.state = "fork",
                                                       !.forkDistance = 140000,
                                                       !.forkChoice = Null])
                         ELSE [g1 EXCEPT !.checkpointMessageTimer = t2])
                   ELSE g1} } : TRUE
         : t2 \in {g1.checkpointMessageTimer - dt} } : TRUE
         : g1 \in {IF atEnd
                   THEN renderOverlay([g EXCEPT !.state = "checkpoint",
                                                !.checkpointMessageTimer = 2500,
                                                !.timer = g.timer + stageTimerBonus,
                                                !.probe.bonus = TRUE])
                   ELSE g} } : TRUE
  : atEnd \in {g.stageProgress.distance >= stageLength /\ g.state = "race"} } : TRUE
  : g \in {this} } : TRUE

updateProgress(this, dt, now, rnd) ==
  CHOOSE val \in {
    IF g.routeSamples = NullObject THEN g
    ELSE IF g.timer - dt <= 0
    THEN renderOverlay([g EXCEPT !.timer = 0, !.state = "results", !.probe.progress = "timeout"])
    ELSE CHOOSE val \in {CHOOSE val \in {CHOOSE val \in {CHOOSE val \in {CHOOSE val \in {CHOOSE val \in {CHOOSE val \in {
           stageEnd(g5, dt, g.stageProgress.node.segment.length, rnd)
         : g5 \in {recordRewindSnapshot([g4o EXCEPT !.probe.penalised = [timer |-> g4o.timer]],
                                        now)} } : TRUE
         : g4o \in {obstaclesForEach(g4, 1)} } : TRUE
         : g4 \in {[g3 EXCEPT !.probe.road = [ node |-> g1.stageProgress.node.id,
                                                 distance |-> g1.stageProgress.distance,
                                                 width |-> roadWidth,
                                                 terrain |-> g2.vehicle.terrain ],
                              !.probe.oobIn = BoundsView(g2, roadWidth),
                              !.probe.oobOut = BoundsView(g3, roadWidth)]} } : TRUE
         : g3 \in {boundsCheck(g2, roadWidth)} } : TRUE
         : g2 \in {[g1 EXCEPT !.vehicle.terrain =
                      IF roadSample = NullObject THEN "asphalt" ELSE roadSample.terrain]},
           roadWidth \in {IF roadSample = NullObject THEN 8000 ELSE roadSample.width} } : TRUE
         : roadSample \in {getSampleAtDistance(g1, g1.stageProgress.distance)} } : TRUE
         : g1 \in {[g EXCEPT !.timer = g.timer - dt,
                             !.stageProgress.distance =
                                Max(0, g.stageProgress.distance + FMul(g.vehicle.state.velocity.z, dt)),
                             !.probe.progress = "ran"]} } : TRUE
  : g \in {[this EXCEPT !.probe.trace = Append(@, "updateProgress")]} } : TRUE

\* a faulty block, which updates the route progress before the dynamics and
\* handles no key
raceBlockProgressFirst(this, inputState, dt, now, rnd) ==
  CHOOSE val \in {
    [g EXCEPT !.vehicle = update(g.vehicle, dt,
                                 [ throttle |-> inputState.throttle,
                                   brake |-> inputState.brake,
                                   steer |-> inputState.steer,
                                   handbrake |-> inputState.handbrake ]),
              !.probe.trace = Append(@, "update"),
              !.probe.stepped = TRUE,
              !.probe.shiftUpHeld = inputState.shiftUp,
              !.probe.shiftDownHeld = inputState.shiftDown]
  : g \in {updateProgress(this, dt, now, rnd)} } : TRUE

\* Game.update, the block run in race, checkpoint and fork
raceBlock(this, inputState, dt, now, rnd) ==
  CHOOSE val \in {CHOOSE val \in {CHOOSE val \in {CHOOSE val \in {CHOOSE val \in {CHOOSE val \in {CHOOSE val \in {CHOOSE val \in {CHOOSE val \in {
  CHOOSE val \in {
    updateProgress(g5, dt, now, rnd)
  : g5 \in {IF rew.fired
            THEN [tryRewind(g4r) EXCEPT
                    !.probe.rewindRequest = [ charge |-> g4r.rewindCharge,
                                              buffered |-> Len(g4r.rewindBuffer),
                                              unchanged |-> tryRewind(g4r) = g4r ]]
            ELSE g4r} } : TRUE
  : g4r \in {[g4 EXCEPT !.input = rew.input]} } : TRUE
  : rew \in {consume(g4.input, "rewind")} } : TRUE
  : g4 \in {IF cam.fired THEN cycleCamera([g3 EXCEPT !.input = cam.input])
            ELSE [g3 EXCEPT !.input = cam.input]} } : TRUE
  : cam \in {consume(g3.input, "camera")} } : TRUE
  : g3 \in {IF inputState.shiftDown
            THEN (IF down.fired
                  THEN [g2 EXCEPT !.input = down.input, !.vehicle = shiftDown(g2.vehicle),
                                  !.probe.shiftDownCalled = TRUE]
                  ELSE [g2 EXCEPT !.input = down.input])
            ELSE g2} } : TRUE
  : down \in {consume(g2.input, "shiftDown")} } : TRUE
  : g2 \in {IF inputState.shiftUp
            THEN (IF up.fired
                  THEN [g1 EXCEPT !.input = up.input, !.vehicle = shiftUp(g1.vehicle),
                                  !.probe.shiftUpCalled = TRUE]
                  ELSE [g1 EXCEPT !.input = up.input])
            ELSE g1} } : TRUE
  : up \in {consume(g1.input, "shiftUp")} } : TRUE
  : g1 \in {[this EXCEPT !.vehicle = update(this.vehicle, dt,
                                            [ throttle |-> inputState.throttle,
                                              brake |-> inputState.brake,
                                              steer |-> inputState.steer,
                                              handbrake |-> inputState.handbrake ]),
                         !.probe.trace = Append(@, "update"),
                         !.probe.stepped = TRUE,
                         !.probe.shiftUpHeld = inputState.shiftUp,
                         !.probe.shiftDownHeld = inputState.shiftDown]} } : TRUE

\* Game.update(dt); now is performance.now(), rnd the run of Math.random()
Game_update(this, dt, now, rnd) ==
  IF this.state = "start" THEN this
  ELSE CHOOSE val \in {CHOOSE val \in {
    IF g1.isPaused THEN g1
    ELSE CHOOSE val \in {CHOOSE val \in {CHOOSE val \in {
           IF g3.state = "finish"
           THEN (IF m <= 0
                 THEN renderOverlay([g3 EXCEPT !.checkpointMessageTimer = m, !.state = "results"])
                 ELSE [g3 EXCEPT !.checkpointMessageTimer = m])
           ELSE g3
         : m \in {g3.checkpointMessageTimer - dt} } : TRUE
         : g3 \in {IF g2.state \in {"race", "checkpoint", "fork"}
                   THEN raceBlock(g2, inputState, dt, now, rnd)
                   ELSE g2} } : TRUE
         : g2 \in {IF g1.state = "countdown"
                   THEN [g1 EXCEPT !.countdown = g1.countdown - dt,
                                   !.state = IF g1.countdown - dt <= 0 THEN "race" ELSE g1.state]
                   ELSE g1} } : TRUE
  : g1 \in {IF p.fired THEN togglePause([this EXCEPT !.input = p.input])
            ELSE [this EXCEPT !.input = p.input]} } : TRUE
  : inputState \in {getState(this.input)},
    p \in {consume(this.input, "pause")} } : TRUE

\* a faulty loop, which passes update a dt of 0 while the countdown runs
loopFrozen(this, time, rnd) ==
  Game_update([this EXCEPT !.lastFrame = time, !.probe = NoProbe],
              IF this.state = "countdown" THEN 0 ELSE Min(50, time - this.lastFrame),
              time, rnd)

\* Game.loop(time)
loop(this, time, rnd) ==
  CHOOSE val \in {
    Game_update(g, dt, time, rnd)
  : dt \in {Min(50, time - this.lastFrame)},
    g \in {[this EXCEPT !.lastFrame = time, !.probe = NoProbe]} } : TRUE

\* new Game(...): the fields' initialisers and the constructor
NewGame(rnd) ==
  renderOverlay(resetRoute(
    [ car |-> CARS[1],
      vehicle |-> NewVehicle(CARS[1], DefaultTuning(CARS[1])),
      state |-> "start",
      stageProgress |-> [node |-> ROUTE_GRAPH["s1"], distance |-> 0],
      routeSamples |-> NullObject,
      currentNodeId |-> "s1",
      timer |-> 55000,
      lastFrame |-> 0,
      countdown |-> 3000,
      checkpointMessageTimer |-> 0,
      forkChoice |-> Null,
      forkDistance |-> 0,
      destination |-> "A",
      rewindBuffer |-> <<>>,
      rewindCharge |-> 1,
      isPaused |-> FALSE,
      cameraModeIndex |-> 0,
      obstacles |-> <<>>,
      input |-> NewInputManager,
      overlay |-> [display |-> "none", panel |-> "", form |-> NullObject],
      localStorage |-> [id \in {CARS[i].id : i \in 1..Len(CARS)} |-> NullObject],
      probe |-> NoProbe ],
    rnd))

(***************************************************************************)
(* The game as a state machine.  One action is one callback of the browser *)
(* run to completion: an animation frame, a key event, a click on a        *)
(* button of the overlay.                                                  *)
(***************************************************************************)
VARIABLES
  game,     \* the Game object
  frames,   \* animation frames so far
  events,   \* key events so far
  clicks,   \* clicks on the overlay so far
  hist      \* history of the race, for stating properties:
            \*   stages      the stages of the nodes stageProgress.node took since race start
            \*   choices     the choices advanceStage was called with since race start
            \*   bonuses     checkpoint bonuses since the current stage started
            \*   rewinds     snapshots tryRewind restored since the current stage started
            \*   rewindsBefore         the same before the latest frame
            \*   upHeld, downHeld      whether shiftUp, shiftDown was held at the
            \*                         latest frame
            \*   upHeldBefore, downHeldBefore   the same at the frame before it
            \*   steppedBefore         whether the frame before it ran the race block
            \*   lane        the side of the band [-1.2, 1.2] the car was on when a
            \*               frame last saw it outside the band, since the fork was
            \*               entered; Null if it has not left the band
            \*   nodeBefore  the id of stageProgress.node before the latest frame
            \*   zeroed      the timer was brought to 0 since the race started, by the
            \*               decrement of a frame or by a penalty
            \*   zeroedBefore          the same before the latest frame
            \*   stageSince  the time of the frame or click that began the current stage
            \*               with the current vehicle: the start of the race, the
            \*               latest stage advance or the choice of a car
            \*   stageSinceBefore      the same when the latest frame began
            \*   pausedFrom  while the game is paused, and after Resume until the
            \*               next frame: the state, timer, node and stage distance
            \*               of the game when the pause was taken; else NullObject

\* the variables of the specifications of the vehicle and of the route
\* functions below, which the game leaves alone
VARIABLES
  vehicle,  \* a Vehicle driven through its public interface
  calls,    \* calls made so far
  last      \* the last call: its name, the object before it, its arguments
            \* and what it returned

vars == <<game, frames, events, clicks, hist, vehicle, calls, last>>

gameVars == <<game, frames, events, clicks, hist>>

unitVars == <<vehicle, calls, last>>

\* bounds of the exploration
MaxFrames == 3

MaxEvents == 2

MaxClicks == 3

\* the keys the player uses, of those DEFAULT_MAPPING binds
Keys == {"KeyE", "KeyQ", "KeyR", "Escape"}

\* time between two animation frames, ms: 60 Hz, and a stall
FrameGaps == {16, 4000}

\* runs of Math.random()
RandomRuns == 0..(Len(Randoms) - 1)

NewHist ==
  [ stages |-> <<1>>, choices |-> <<>>, bonuses |-> 0, rewinds |-> 0, rewindsBefore |-> 0,
    upHeld |-> FALSE, downHeld |-> FALSE,
    upHeldBefore |-> FALSE, downHeldBefore |-> FALSE, steppedBefore |-> FALSE,
    lane |-> Null, nodeBefore |-> "s1", pausedFrom |-> NullObject,
    zeroed |-> FALSE, zeroedBefore |-> FALSE, stageSince |-> 0,
    stageSinceBefore |-> 0 ]

\* hist when a race starts, at time now
HistAtStart(h, now) ==
  [h EXCEPT !.stageSince = now, !.stages = <<1>>, !.choices = <<>>, !.bonuses = 0, !.rewinds = 0, !.rewindsBefore = 0,
            !.lane = Null, !.nodeBefore = "s1", !.zeroed = FALSE, !.zeroedBefore = FALSE]

\* hist after a frame took the game from g to g2
HistAfterFrame(h, g, g2) ==
  CHOOSE val \in {
    [ stages |-> IF moved THEN Append(h.stages, g2.stageProgress.node.stage) ELSE h.stages,
      choices |-> IF g2.probe.advanced # Null THEN Append(h.choices, g2.probe.advanced)
                  ELSE h.choices,
      bonuses |-> IF moved THEN 0 ELSE h.bonuses + (IF g2.probe.bonus THEN 1 ELSE 0),
      rewinds |-> IF moved THEN 0 ELSE h.rewinds + (IF g2.probe.rewound THEN 1 ELSE 0),
      rewindsBefore |-> h.rewinds,
      upHeld |-> st.shiftUp,
      downHeld |-> st.shiftDown,
      upHeldBefore |-> h.upHeld,
      downHeldBefore |-> h.downHeld,
      steppedBefore |-> g.probe.stepped,
      lane |-> IF g2.probe.fork = NullObject THEN h.lane
               ELSE IF g2.probe.fork.x < -1200 THEN "left"
               ELSE IF g2.probe.fork.x > 1200 THEN "right"
               ELSE IF g.state = "fork" THEN h.lane
               ELSE Null,
      nodeBefore |-> g.stageProgress.node.id,
      pausedFrom |-> IF ~g2.isPaused THEN NullObject
                     ELSE IF g.isPaused THEN h.pausedFrom
                     ELSE [ state |-> g.state, timer |-> g.timer,
                            node |-> g.stageProgress.node.id,
                            distance |-> g.stageProgress.distance ],
      zeroed |-> \/ h.zeroed
                 \/ g2.probe.progress = "timeout"
                 \/ g2.probe.penalised # NullObject /\ g2.probe.penalised.timer = 0,
      zeroedBefore |-> h.zeroed,
      stageSince |-> IF moved THEN g2.lastFrame ELSE h.stageSince,
      stageSinceBefore |-> h.stageSince ]
  : moved \in {g2.stageProgress.node.id # g.stageProgress.node.id},
    st \in {getState(g.input)} } : TRUE

\* requestAnimationFrame's callback
Frame ==
  /\ frames < MaxFrames
  /\ \E gap \in FrameGaps :
       \E g0 \in {loop(game, game.lastFrame + gap, 0)} :
         /\ IF g0.probe.advanced # Null /\ g0.state = "race"
            THEN \E rnd \in RandomRuns : game' = loop(game, game.lastFrame + gap, rnd)
            ELSE game' = g0
         /\ hist' = HistAfterFrame(hist, game, g0)
  /\ frames' = frames + 1
  /\ UNCHANGED <<events, clicks, unitVars>>

\* the keydown listener
KeyDown ==
  /\ events < MaxEvents
  /\ \E k \in Keys \ game.input.keys : game' = [game EXCEPT !.input.keys = @ \cup {k}]
  /\ events' = events + 1
  /\ UNCHANGED <<frames, clicks, hist, unitVars>>

\* the keyup listener
KeyUp ==
  /\ events < MaxEvents
  /\ \E k \in game.input.keys : game' = [game EXCEPT !.input.keys = @ \ {k}]
  /\ events' = events + 1
  /\ UNCHANGED <<frames, clicks, hist, unitVars>>

\* a button of the panel can be clicked
Shown(panel) ==
  /\ clicks < MaxClicks
  /\ game.overlay.display = "flex"
  /\ game.overlay.panel = panel

\* start panel: Start
ClickStart ==
  /\ Shown("start")
  /\ game' = renderOverlay([game EXCEPT !.state = "select"])
  /\ clicks' = clicks + 1
  /\ UNCHANGED <<frames, events, hist, unitVars>>

\* start panel: Settings (showSettings)
ClickSettings ==
  /\ Shown("start")
  /\ game' = [game EXCEPT !.overlay = [display |-> "flex", panel |-> "settings", form |-> NullObject]]
  /\ clicks' = clicks + 1
  /\ UNCHANGED <<frames, events, hist, unitVars>>

\* settings panel: Save (with the bindings as they are) or Back
ClickSettingsDone ==
  /\ Shown("settings")
  /\ game' = renderOverlay([game EXCEPT !.state = "start"])
  /\ clicks' = clicks + 1
  /\ UNCHANGED <<frames, events, hist, unitVars>>

\* select panel: a car
ClickCar ==
  /\ Shown("select")
  /\ \E i \in 1..Len(CARS) :
       game' = renderOverlay([game EXCEPT !.car = CARS[i],
                                          !.vehicle = NewVehicle(CARS[i], loadTuning(game, CARS[i])),
                                          !.state = "garage"])
  /\ hist' = [hist EXCEPT !.stageSince = game.lastFrame]
  /\ clicks' = clicks + 1
  /\ UNCHANGED <<frames, events, unitVars>>

\* select panel: Back
ClickSelectBack ==
  /\ Shown("select")
  /\ game' = renderOverlay([game EXCEPT !.state = "start"])
  /\ clicks' = clicks + 1
  /\ UNCHANGED <<frames, events, hist, unitVars>>

\* garage panel: the change listener of a form element, here the gearbox select
ChangeManualMode ==
  /\ Shown("garage")
  /\ \E b \in BOOLEAN \ {game.overlay.form.manualMode} :
       game' = updateTuning([game EXCEPT !.overlay.form.manualMode = b])
  /\ clicks' = clicks + 1
  /\ UNCHANGED <<frames, events, hist, unitVars>>

\* garage panel: Start Race
ClickRace ==
  /\ Shown("garage")
  /\ \E rnd \in RandomRuns :
       \E g1 \in {updateTuning(game)} :
         game' = startRace(saveTuning(g1, g1.car, g1.vehicle.tuning), rnd)
  /\ hist' = HistAtStart(hist, game.lastFrame)
  /\ clicks' = clicks + 1
  /\ UNCHANGED <<frames, events, unitVars>>

\* garage panel: Back
ClickGarageBack ==
  /\ Shown("garage")
  /\ game' = renderOverlay([game EXCEPT !.state = "select"])
  /\ clicks' = clicks + 1
  /\ UNCHANGED <<frames, events, hist, unitVars>>

\* results panel: Restart
ClickRestart ==
  /\ Shown("results")
  /\ \E rnd \in RandomRuns : game' = startRace(game, rnd)
  /\ hist' = HistAtStart(hist, game.lastFrame)
  /\ clicks' = clicks + 1
  /\ UNCHANGED <<frames, events, unitVars>>

\* results panel: Change Car
ClickChangeCar ==
  /\ Shown("results")
  /\ game' = renderOverlay([game EXCEPT !.state = "select"])
  /\ clicks' = clicks + 1
  /\ UNCHANGED <<frames, events, hist, unitVars>>

\* pause panel: Resume
ClickResume ==
  /\ Shown("pause")
  /\ game' = togglePause(game)
  /\ clicks' = clicks + 1
  /\ UNCHANGED <<frames, events, hist, unitVars>>

\* pause panel: Quit
ClickQuit ==
  /\ Shown("pause")
  /\ game' = renderOverlay([game EXCEPT !.state = "start", !.isPaused = FALSE])
  /\ hist' = [hist EXCEPT !.pausedFrom = NullObject]
  /\ clicks' = clicks + 1
  /\ UNCHANGED <<frames, events, unitVars>>

(***************************************************************************)
(* Initial states.  A frame advances the car by at most 50 ms, so a stage  *)
(* of a kilometre takes hundreds of frames.  Next to the game as the       *)
(* constructor leaves it, the exploration therefore starts from games in   *)
(* the middle of a race, built with the operators above: the car chosen    *)
(* and the race started from the garage, the route rebuilt for the node    *)
(* reached, the car placed on the road by a step of Vehicle.update, the    *)
(* last frame's snapshot in the rewind buffer.                             *)
(***************************************************************************)
NoInput == [throttle |-> 0, brake |-> 0, steer |-> 0, handbrake |-> 0]

\* the fork choices that lead from s1 to a node, read off its id
ChoicesTo(nodeId) ==
  [i \in 1..(Len(nodeId) - 2) |-> IF SubSeq(nodeId, i + 2, i + 2) = "l" THEN "left" ELSE "right"]

\* sc: [node, keys, phase, manual, edge, x, heading, speed, origin, distance, timer, forkChoice, rnd]
\* with edge 1 or -1 the car is x inside the right or left edge of the road;
\* distance counts from the start or from the end of the stage, as origin says
MidRace(sc) ==
  CHOOSE val \in {CHOOSE val \in {CHOOSE val \in {CHOOSE val \in {CHOOSE val \in {CHOOSE val \in {
    recordRewindSnapshot(IF sc.phase = "race" THEN g5 ELSE renderOverlay(g5), g5.lastFrame)
  : g5 \in {[g4 EXCEPT !.vehicle = update(seed, 16, NoInput),
                       !.stageProgress.distance = distance,
                       !.state = sc.phase,
                       !.countdown = -10,
                       !.timer = sc.timer,
                       !.lastFrame = 60000,
                       !.checkpointMessageTimer =
                          IF sc.phase = "checkpoint" THEN 10
                          ELSE IF sc.phase = "fork" \/ sc.node # "s1" THEN -6 ELSE 0,
                       !.forkDistance = IF sc.phase = "fork" THEN 300
                                        ELSE IF sc.node # "s1" THEN -180 ELSE 0,
                       !.forkChoice = sc.forkChoice,
                       !.input.keys = sc.keys]} } : TRUE
  : seed \in {[g4.vehicle EXCEPT
                 !.terrain = node.segment.terrain,
                 !.state.position.x =
                    IF sc.edge = 0 THEN sc.x ELSE sc.edge * (node.segment.width - sc.x),
                 !.state.position.z = distance,
                 !.state.heading = sc.heading,
                 !.state.velocity.x = FMul(sc.speed, Sin(sc.heading)),
                 !.state.velocity.z = FMul(sc.speed, Cos(sc.heading)),
                 !.state.gear = 3]} } : TRUE
  : g4 \in {IF sc.node = "s1" THEN g3
            ELSE [resetRoute([g3 EXCEPT !.currentNodeId = sc.node], sc.rnd)
                    EXCEPT !.overlay = [display |-> "flex", panel |-> "fork", form |-> NullObject]]} } : TRUE
  : g3 \in {startRace(saveTuning(g2, g2.car, g2.vehicle.tuning), sc.rnd)} } : TRUE
  : g2 \in {updateTuning([g1 EXCEPT !.overlay.form.manualMode = sc.manual])} } : TRUE
  : g1 \in {renderOverlay([NewGame(sc.rnd) EXCEPT !.state = "garage"])},
    node \in {ROUTE_GRAPH[sc.node]},
    distance \in {IF sc.origin = "end" THEN ROUTE_GRAPH[sc.node].segment.length + sc.distance
                  ELSE sc.distance} } : TRUE

HistAt(sc) ==
  [NewHist EXCEPT !.stages = [i \in 1..ROUTE_GRAPH[sc.node].stage |-> i],
                  !.choices = ChoicesTo(sc.node),
                  !.bonuses = IF sc.phase = "race" THEN 0 ELSE 1,
                  !.lane = sc.forkChoice,
                  !.nodeBefore = sc.node]

\* the nodes the races of the exploration are at
ScenarioNodes == {"s1", "s4lll"}

\* where the car is and what is about to happen
ScenarioPlaces ==
  { \* on the road, an obstacle ahead
    [phase |-> "race", edge |-> 0, x |-> -1000, heading |-> 0, origin |-> "start",
     distance |-> 591800, forkChoice |-> Null],
    \* about to leave the road on the right
    [phase |-> "race", edge |-> 1, x |-> 200, heading |-> 300, origin |-> "start",
     distance |-> 300000, forkChoice |-> Null],
    \* about to leave the road on the left
    [phase |-> "race", edge |-> -1, x |-> 200, heading |-> -300, origin |-> "start",
     distance |-> 300000, forkChoice |-> Null],
    \* about to reach the end of the stage
    [phase |-> "race", edge |-> 0, x |-> -3000, heading |-> 0, origin |-> "end",
     distance |-> -400, forkChoice |-> Null],
    \* about to leave the road on the right and to reach the end of the stage
    [phase |-> "race", edge |-> 1, x |-> 200, heading |-> 300, origin |-> "end",
     distance |-> -400, forkChoice |-> Null],
    \* the checkpoint message about to expire
    [phase |-> "checkpoint", edge |-> 0, x |-> 3000, heading |-> 0, origin |-> "end",
     distance |-> 60000, forkChoice |-> Null],
    \* the fork about to be reached, in the middle, on the left and on the right
    [phase |-> "fork", edge |-> 0, x |-> 0, heading |-> 0, origin |-> "end",
     distance |-> 130000, forkChoice |-> Null],
    [phase |-> "fork", edge |-> 0, x |-> -3000, heading |-> 0, origin |-> "end",
     distance |-> 130000, forkChoice |-> "left"],
    [phase |-> "fork", edge |-> 0, x |-> 3000, heading |-> 0, origin |-> "end",
     distance |-> 130000, forkChoice |-> "right"] }

\* on the road of a stage, five metres before its end
LastMetres ==
  [phase |-> "race", edge |-> 0, x |-> 0, heading |-> 0, origin |-> "end",
   distance |-> -5000, forkChoice |-> Null]

Scenario(n, p, m, t, keys) ==
  [ node |-> n, keys |-> keys, phase |-> p.phase, manual |-> m, edge |-> p.edge, x |-> p.x,
    heading |-> p.heading, speed |-> 30000, origin |-> p.origin, distance |-> p.distance,
    timer |-> t, forkChoice |-> p.forkChoice, rnd |-> 0 ]

\* the races the exploration starts from: every place at the first node and
\* the forks at the others with the automatic gearbox and time left, the
\* last metres of a second stage, the
\* manual gearbox on the road with no key held and with shift-up pressed
\* since the last frame, the car leaving the road with the timer about to run
\* out, and rewind pressed since the last frame
Scenarios ==
  { Scenario("s1", p, FALSE, 30000, {}) : p \in ScenarioPlaces }
  \cup { Scenario(n, p, FALSE, 30000, {}) :
          n \in ScenarioNodes \ {"s1"}, p \in {q \in ScenarioPlaces : q.phase = "fork"} }
  \cup { Scenario("s1", p, TRUE, 30000, keys) :
          p \in {q \in ScenarioPlaces : q.edge = 0 /\ q.phase = "race" /\ q.origin = "start"},
          keys \in {{}, {"KeyE"}} }
  \cup { Scenario("s1", p, FALSE, 1000, {}) : p \in {q \in ScenarioPlaces : q.edge = 1} }
  \cup { Scenario("s1", p, FALSE, 30000, {"KeyR"}) :
          p \in {q \in ScenarioPlaces : q.edge = 0 /\ q.phase = "race" /\ q.origin = "start"} }
  \cup { Scenario("s2l", LastMetres, FALSE, 30000, {}) }

\* the garage after a race was left: the first car of CARS was driven with
\* the manual gearbox and shifted up to its top gear, the snapshot of a frame
\* in that gear is in the rewind buffer, the player paused, chose Quit, then
\* Start and the last car of CARS
GarageAfterRace ==
  CHOOSE val \in {CHOOSE val \in {CHOOSE val \in {CHOOSE val \in {
    renderOverlay([g3 EXCEPT !.car = car,
                             !.vehicle = NewVehicle(car, loadTuning(g3, car)),
                             !.state = "garage"])
  : g3 \in {renderOverlay([g2 EXCEPT !.state = "select"])},
    car \in {CARS[Len(CARS)]} } : TRUE
  : g2 \in {renderOverlay([togglePause(g1) EXCEPT !.state = "start", !.isPaused = FALSE])} } : TRUE
  : g1 \in {recordRewindSnapshot(
              [g0 EXCEPT !.vehicle = update(shiftUp(shiftUp(shiftUp(g0.vehicle))), 16, NoInput),
                         !.lastFrame = g0.lastFrame + 4000],
              g0.lastFrame + 4000)} } : TRUE
  : g0 \in {MidRace(Scenario("s1", CHOOSE p \in ScenarioPlaces : p.distance = 591800,
                              TRUE, 30000, {}))} } : TRUE

Init ==
  /\ frames = 0
  /\ events = 0
  /\ clicks = 0
  /\ vehicle = NullObject
  /\ calls = 0
  /\ last = [op |-> "none"]
  /\ \/ /\ \E rnd \in RandomRuns : game = NewGame(rnd)
        /\ hist = NewHist
     \/ \E sc \in Scenarios : game = MidRace(sc) /\ hist = HistAt(sc)
     \/ game = GarageAfterRace /\ hist = [NewHist EXCEPT !.stageSince = GarageAfterRace.lastFrame]

Next ==
  \/ Frame
  \/ KeyDown
  \/ KeyUp
  \/ ClickStart
  \/ ClickSettings
  \/ ClickSettingsDone
  \/ ClickCar
  \/ ClickSelectBack
  \/ ChangeManualMode
  \/ ClickRace
  \/ ClickGarageBack
  \/ ClickRestart
  \/ ClickChangeCar
  \/ ClickResume
  \/ ClickQuit

Spec == Init /\ [][Next]_vars

(***************************************************************************)
(* A race followed to its end: the keys held do not change, the game is    *)
(* never paused, and the frames arrive at a fixed rate, which last keeps.  *)
(* requestAnimationFrame calls back for as long as the page is shown,      *)
(* hence the weak fairness of the frame.                                   *)
(***************************************************************************)
MaxRaceFrames == 1200

\* a race just started from the garage with keys held
StartedRace(keys) ==
  CHOOSE val \in {CHOOSE val \in {
    [startRace(saveTuning(g2, g2.car, g2.vehicle.tuning), 0) EXCEPT !.input.keys = keys]
  : g2 \in {updateTuning(g1)} } : TRUE
  : g1 \in {renderOverlay([NewGame(0) EXCEPT !.state = "garage"])} } : TRUE

\* the races followed: [game, hist, gap], gap the time between two frames.
\* A race from its start, with no key and with the throttle held; races near
\* their end (1 s left) from every place of ScenarioPlaces on the road, with
\* no key, with throttle and steering and with rewind held; forks with 2 s
\* left, at 60 Hz and stalling; a race near its end after a frame with the
\* steering held, rewind now pressed too.
RaceRuns ==
  { [game |-> StartedRace(keys), hist |-> HistAtStart(NewHist, 0), gap |-> 4000] :
      keys \in {{}, {"KeyW"}} }
  \cup { [game |-> MidRace(sc), hist |-> HistAt(sc), gap |-> 4000] :
           sc \in { Scenario("s1", p, FALSE, 1000, {}) :
                      p \in {q \in ScenarioPlaces : q.phase = "race"} } }
  \cup { [game |-> MidRace(sc), hist |-> HistAt(sc), gap |-> 16] :
           sc \in { Scenario("s1", p, FALSE, 1000, keys) :
                      keys \in {{"KeyW", "KeyA"}, {"KeyR"}},
                      p \in {q \in ScenarioPlaces : q.phase = "race" /\ q.distance = 591800} } }
  \cup { [game |-> MidRace(sc), hist |-> HistAt(sc), gap |-> gap] :
           gap \in FrameGaps,
           sc \in { Scenario(n, p, FALSE, 2000, {}) :
                      n \in ScenarioNodes, p \in {q \in ScenarioPlaces : q.phase = "fork"} } }
  \cup { [game |-> [loop(MidRace(sc), MidRace(sc).lastFrame + 4000, 0)
                      EXCEPT !.input.keys = {"KeyA", "KeyR"}],
          hist |-> HistAfterFrame(HistAt(sc), MidRace(sc),
                                  loop(MidRace(sc), MidRace(sc).lastFrame + 4000, 0)),
          gap |-> 4000] :
           sc \in { Scenario("s1", p, FALSE, 1000, {"KeyA"}) :
                      p \in {q \in ScenarioPlaces : q.phase = "race" /\ q.distance = 591800} } }

InitRace ==
  /\ frames = 0
  /\ events = 0
  /\ clicks = 0
  /\ vehicle = NullObject
  /\ calls = 0
  /\ \E run \in RaceRuns :
       /\ game = run.game
       /\ hist = run.hist
       /\ last = [op |-> "race", gap |-> run.gap]

\* requestAnimationFrame's callback, until the results are shown
RaceFrame ==
  /\ frames < MaxRaceFrames
  /\ game.state # "results"
  /\ \E g0 \in {loop(game, game.lastFrame + last.gap, 0)} :
       /\ IF g0.probe.advanced # Null /\ g0.state = "race"
          THEN \E rnd \in RandomRuns : game' = loop(game, game.lastFrame + last.gap, rnd)
          ELSE game' = g0
       /\ hist' = HistAfterFrame(hist, game, g0)
  /\ frames' = frames + 1
  /\ UNCHANGED <<events, clicks, unitVars>>

NextRace == RaceFrame

SpecRace == InitRace /\ [][NextRace]_vars /\ WF_vars(RaceFrame)

(***************************************************************************)
(* The Vehicle on its own: a vehicle as its constructor leaves it, then    *)
(* any calls of its public methods.  Vehicle.update does not bound dt; the *)
(* long step lets a few calls reach the speeds at which gears change.      *)
(***************************************************************************)
MaxVehicleCalls == 3

\* dt of update, ms
VehicleSteps == {16, 10000}

\* VehicleInput values; steer 2500 is outside [-1, 1], throttle 2000 outside [0, 1]
VehicleInputs ==
  { NoInput,
    [throttle |-> 1000, brake |-> 0, steer |-> 0, handbrake |-> 0],
    [throttle |-> 2000, brake |-> 0, steer |-> 0, handbrake |-> 0],
    [throttle |-> 200, brake |-> 0, steer |-> 2500, handbrake |-> 0],
    [throttle |-> 0, brake |-> 1000, steer |-> 0, handbrake |-> 0],
    [throttle |-> 0, brake |-> 0, steer |-> -1000, handbrake |-> 1000] }

IdleGame ==
  /\ game = NullObject
  /\ frames = 0
  /\ events = 0
  /\ clicks = 0
  /\ hist = NewHist

\* a tuning with a gearbox of two gears, the car's first and last
ShortGearbox(car) ==
  [DefaultTuning(car) EXCEPT
     !.gearRatios = <<car.gearRatios[1], car.gearRatios[Len(car.gearRatios)]>>]

InitVehicle ==
  /\ IdleGame
  /\ \E i \in 1..Len(CARS), manual \in BOOLEAN :
       \/ vehicle = [NewVehicle(CARS[i], DefaultTuning(CARS[i])) EXCEPT !.manualMode = manual]
       \/ /\ i = 1
          /\ vehicle = [NewVehicle(CARS[i], ShortGearbox(CARS[i])) EXCEPT !.manualMode = manual]
  /\ calls = 0
  /\ last = [op |-> "new"]

CallUpdate ==
  /\ calls < MaxVehicleCalls
  /\ \E dt \in VehicleSteps, input \in VehicleInputs :
       /\ vehicle' = update(vehicle, dt, input)
       /\ last' = [op |-> "update", before |-> vehicle, dt |-> dt, input |-> input]
  /\ calls' = calls + 1
  /\ UNCHANGED gameVars

CallShiftUp ==
  /\ calls < MaxVehicleCalls
  /\ vehicle' = shiftUp(vehicle)
  /\ last' = [op |-> "shiftUp", before |-> vehicle]
  /\ calls' = calls + 1
  /\ UNCHANGED gameVars

CallShiftDown ==
  /\ calls < MaxVehicleCalls
  /\ vehicle' = shiftDown(vehicle)
  /\ last' = [op |-> "shiftDown", before |-> vehicle]
  /\ calls' = calls + 1
  /\ UNCHANGED gameVars

\* (positionX, positionZ) of reset: the defaults, which are what the game
\* passes, and another place
ResetPlaces == {<<0, 0>>, <<-3000, 120000>>}

CallReset ==
  /\ calls < MaxVehicleCalls
  /\ \E place \in ResetPlaces :
       /\ vehicle' = reset(vehicle, place[1], place[2])
       /\ last' = [op |-> "reset", before |-> vehicle,
                   positionX |-> place[1], positionZ |-> place[2]]
  /\ calls' = calls + 1
  /\ UNCHANGED gameVars

NextVehicle ==
  \/ CallUpdate
  \/ CallShiftUp
  \/ CallShiftDown
  \/ CallReset

SpecVehicle == InitVehicle /\ [][NextVehicle]_vars

(***************************************************************************)
(* A drive: a freshly constructed vehicle in automatic mode on asphalt,    *)
(* and one VehicleInput held for step after step of dt = 0.016.  last      *)
(* keeps, besides the call, the highest gear and engineRpm the drive has   *)
(* reached.                                                                *)
(***************************************************************************)
MaxDriveSteps == 60

\* the inputs held: full throttle, and a fifth of it
DriveInputs ==
  { [throttle |-> 1000, brake |-> 0, steer |-> 0, handbrake |-> 0],
    [throttle |-> 200, brake |-> 0, steer |-> 0, handbrake |-> 0] }

InitDrive ==
  /\ IdleGame
  /\ \E i \in 1..Len(CARS), input \in DriveInputs :
       /\ vehicle = NewVehicle(CARS[i], DefaultTuning(CARS[i]))
       /\ last = [op |-> "new", input |-> input, topGear |-> 1, topRpm |-> 1200000]
  /\ calls = 0

DriveStep ==
  /\ calls < MaxDriveSteps
  /\ \E v \in {update(vehicle, 16, last.input)} :
       /\ vehicle' = v
       /\ last' = [op |-> "update", before |-> vehicle, dt |-> 16, input |-> last.input,
                   topGear |-> Max(last.topGear, v.state.gear),
                   topRpm |-> Max(last.topRpm, v.state.engineRpm)]
  /\ calls' = calls + 1
  /\ UNCHANGED gameVars

NextDrive == DriveStep

SpecDrive == InitDrive /\ [][NextDrive]_vars

(***************************************************************************)
(* Shifting and driving: a freshly constructed vehicle at full throttle,   *)
(* any calls of shiftUp, shiftDown and update with the dt of a frame at 60 *)
(* Hz and the longest dt Game.loop passes.  last.sinceShift is the sum of  *)
(* the dt of the updates since the last shift that changed the gear, -1    *)
(* before the first.                                                       *)
(***************************************************************************)
MaxClutchCalls == 5

ClutchSteps == {16, 50}

InitClutch ==
  /\ IdleGame
  /\ \E i \in 1..Len(CARS), manual \in BOOLEAN :
       vehicle = [NewVehicle(CARS[i], DefaultTuning(CARS[i])) EXCEPT !.manualMode = manual]
  /\ calls = 0
  /\ last = [op |-> "new", sinceShift |-> -1]

ClutchUpdate ==
  /\ calls < MaxClutchCalls
  /\ \E dt \in ClutchSteps :
       /\ vehicle' = update(vehicle, dt, [throttle |-> 1000, brake |-> 0, steer |-> 0,
                                         handbrake |-> 0])
       /\ last' = [op |-> "update",
                   sinceShift |-> IF last.sinceShift < 0 THEN -1 ELSE last.sinceShift + dt]
  /\ calls' = calls + 1
  /\ UNCHANGED gameVars

ClutchShiftUp ==
  /\ calls < MaxClutchCalls
  /\ vehicle' = shiftUp(vehicle)
  /\ last' = [op |-> "shiftUp",
              sinceShift |-> IF shiftUp(vehicle).state.gear # vehicle.state.gear THEN 0
                             ELSE last.sinceShift]
  /\ calls' = calls + 1
  /\ UNCHANGED gameVars

ClutchShiftDown ==
  /\ calls < MaxClutchCalls
  /\ vehicle' = shiftDown(vehicle)
  /\ last' = [op |-> "shiftDown",
              sinceShift |-> IF shiftDown(vehicle).state.gear # vehicle.state.gear THEN 0
                             ELSE last.sinceShift]
  /\ calls' = calls + 1
  /\ UNCHANGED gameVars

NextClutch ==
  \/ ClutchUpdate
  \/ ClutchShiftUp
  \/ ClutchShiftDown

SpecClutch == InitClutch /\ [][NextClutch]_vars

\* C34: the clutch slip is within [0, 0.2]; it is 0 before the first shift
\* that changes the gear, 0.2 right after such a shift, lower by 2 * dt after
\* each update and never below 0, hence 0 once the updates since the shift
\* total 0.1 s or more.
ClutchSlipDecays ==
  /\ vehicle.clutch >= 0
  /\ vehicle.clutch <= 200
  /\ last.sinceShift < 0 => vehicle.clutch = 0
  /\ last.sinceShift >= 0 => vehicle.clutch = Max(0, 200 - 2 * last.sinceShift)
  /\ last.sinceShift >= 100 => vehicle.clutch = 0

\* C34's case: updates of exactly 0.1 s in total since the shift
ClutchClosedAfterTenthOfSecond ==
  /\ last.op = "update"
  /\ last.sinceShift = 100
  /\ vehicle.clutch = 0

\* the slip partly decayed
ClutchPartlyClosed ==
  /\ last.op = "update"
  /\ vehicle.clutch > 0
  /\ vehicle.clutch < 200

(***************************************************************************)
(* The functions of tracks/RouteGraph.ts on their own: any calls, with     *)
(* arguments from the graph.  last.graph is ROUTE_GRAPH as the module      *)
(* holds it once loaded and after each call: none of the functions writes  *)
(* to it.                                                                  *)
(***************************************************************************)
MaxFnCalls == 3

InitFn ==
  /\ IdleGame
  /\ vehicle = NullObject
  /\ calls = 0
  /\ last = [op |-> "none", graph |-> ROUTE_GRAPH]

\* strings that are no key of ROUTE_GRAPH: the empty string, the id of a
\* node that does not exist, and a property objects inherit
MalformedIds == {"", "s6l", "constructor"}

CallBuildRoutePath ==
  /\ calls < MaxFnCalls
  /\ \E startId \in NodeIds \cup MalformedIds :
       last' = [op |-> "buildRoutePath", startId |-> startId,
                result |-> buildRoutePath(startId),
                graph |-> ROUTE_GRAPH]
  /\ calls' = calls + 1
  /\ UNCHANGED <<gameVars, vehicle>>

CallNextNodeFromChoice ==
  /\ calls < MaxFnCalls
  /\ \E currentId \in NodeIds \cup MalformedIds, choice \in {"left", "right"} :
       last' = [op |-> "nextNodeFromChoice", currentId |-> currentId, choice |-> choice,
                throws |-> nextNodeFromChoiceThrows(currentId),
                result |-> IF nextNodeFromChoiceThrows(currentId) THEN Null
                           ELSE nextNodeFromChoice(currentId, choice),
                graph |-> ROUTE_GRAPH]
  /\ calls' = calls + 1
  /\ UNCHANGED <<gameVars, vehicle>>

\* node sequences given to buildRouteSamples: the path from every node, no
\* node at all, and sequences that are no path of the graph
SampleNodes ==
  {buildRoutePath(id).nodes : id \in NodeIds}
  \cup {<<>>}
  \cup {<<ROUTE_GRAPH[a], ROUTE_GRAPH[b]>> : a, b \in {"s1", "s5lrrr"}}

CallBuildRouteSamples ==
  /\ calls < MaxFnCalls
  /\ \E nodes \in SampleNodes :
       last' = [op |-> "buildRouteSamples", nodes |-> nodes,
                result |-> buildRouteSamples(nodes),
                graph |-> ROUTE_GRAPH]
  /\ calls' = calls + 1
  /\ UNCHANGED <<gameVars, vehicle>>

\* query distances: before the route, at it, on a sample, between two
\* samples, at the last sample of a path and past every sample
SampleQueries == {-5000, 0, 20000, 20001, 600000, 3880000, 3880001, 9000000}

\* Game.getSampleAtDistance reads this.routeSamples only
CallGetSampleAtDistance ==
  /\ calls < MaxFnCalls
  /\ \E startId \in {"s1", "s3rl", "s5rrrr"}, distance \in SampleQueries :
       last' = [op |-> "getSampleAtDistance", startId |-> startId, distance |-> distance,
                result |-> getSampleAtDistance([routeSamples |-> routeSamplesFrom[startId]],
                                               distance),
                graph |-> ROUTE_GRAPH]
  /\ calls' = calls + 1
  /\ UNCHANGED <<gameVars, vehicle>>

NextFn ==
  \/ CallBuildRoutePath
  \/ CallNextNodeFromChoice
  \/ CallBuildRouteSamples
  \/ CallGetSampleAtDistance

SpecFn == InitFn /\ [][NextFn]_vars

(***************************************************************************)
(* buildRouteSamples called again and again, with calls of the other route *)
(* functions in between.  last.seen keeps every call of buildRouteSamples  *)
(* made so far: its place among the calls, the nodes given and the result. *)
(***************************************************************************)
RepeatNodes ==
  { buildRoutePath("s1").nodes,
    buildRoutePath("s4rlr").nodes,
    <<ROUTE_GRAPH["s5lrrr"], ROUTE_GRAPH["s1"]>> }

InitRepeat ==
  /\ IdleGame
  /\ vehicle = NullObject
  /\ calls = 0
  /\ last = [op |-> "none", seen |-> <<>>]

\* a faulty call, of a buildRouteSamples that keeps heading outside the
\* function and so starts where some earlier call left it
RepeatBuildRouteSamplesDrifting ==
  /\ calls < MaxFnCalls
  /\ \E nodes \in RepeatNodes :
       \E result \in {nodeLoop(nodes, 1,
                                [x |-> 0, y |-> 0, z |-> 0,
                                 heading |-> 100 * Len(last.seen), total |-> 0],
                                EmptySamples)} :
         last' = [op |-> "buildRouteSamples", nodes |-> nodes, result |-> result,
                  seen |-> Append(last.seen,
                                  [at |-> calls + 1, nodes |-> nodes, result |-> result])]
  /\ calls' = calls + 1
  /\ UNCHANGED <<gameVars, vehicle>>

RepeatBuildRouteSamples ==
  /\ calls < MaxFnCalls
  /\ \E nodes \in RepeatNodes :
       \E result \in {buildRouteSamples(nodes)} :
         last' = [op |-> "buildRouteSamples", nodes |-> nodes, result |-> result,
                  seen |-> Append(last.seen,
                                  [at |-> calls + 1, nodes |-> nodes, result |-> result])]
  /\ calls' = calls + 1
  /\ UNCHANGED <<gameVars, vehicle>>

RepeatBuildRoutePath ==
  /\ calls < MaxFnCalls
  /\ \E startId \in {"s1", "s5lrrr"} :
       last' = [op |-> "buildRoutePath", startId |-> startId,
                result |-> buildRoutePath(startId), seen |-> last.seen]
  /\ calls' = calls + 1
  /\ UNCHANGED <<gameVars, vehicle>>

RepeatNextNodeFromChoice ==
  /\ calls < MaxFnCalls
  /\ \E currentId \in {"s1", "s5lrrr"}, choice \in {"left", "right"} :
       last' = [op |-> "nextNodeFromChoice", currentId |-> currentId, choice |-> choice,
                result |-> nextNodeFromChoice(currentId, choice), seen |-> last.seen]
  /\ calls' = calls + 1
  /\ UNCHANGED <<gameVars, vehicle>>

NextRepeat ==
  \/ RepeatBuildRouteSamples
  \/ RepeatBuildRoutePath
  \/ RepeatNextNodeFromChoice

SpecRepeat == InitRepeat /\ [][NextRepeat]_vars

(***************************************************************************)
(* Vehicle.torqueAtRpm and pressureGripFactor of physics/TireModel.ts on   *)
(* their own.                                                              *)
(***************************************************************************)

\* rpm given to torqueAtRpm: below, at, between and above the breakpoints
\* of the torque curves of CARS
TorqueQueries ==
  { -500000, 0, 999999, 1000000, 1000001, 1500000, 2000000, 2750000, 3500000, 4321000,
    5000000, 5500000, 5999999, 6000000, 6000001, 6999999, 7000000, 7000001, 7200000,
    9000000 }

\* deviations d from 33 psi; pressureGripFactor is called with 33 + d and
\* with 33 - d
PressureDeltas == {0, 1, 500, 3000, 5999, 6000, 6001, 13000, 33000, 67000}

InitPhysics ==
  /\ IdleGame
  /\ vehicle = NullObject
  /\ calls = 0
  /\ last = [op |-> "none"]

CallTorqueAtRpm ==
  /\ calls < MaxFnCalls
  /\ \E i \in 1..Len(CARS), rpm \in TorqueQueries :
       last' = [op |-> "torqueAtRpm", car |-> CARS[i], rpm |-> rpm,
                result |-> torqueAtRpm(CARS[i], rpm)]
  /\ calls' = calls + 1
  /\ UNCHANGED <<gameVars, vehicle>>

CallPressureGripFactor ==
  /\ calls < MaxFnCalls
  /\ \E d \in PressureDeltas :
       last' = [op |-> "pressureGripFactor", d |-> d,
                above |-> pressureGripFactor(33000 + d),
                below |-> pressureGripFactor(33000 - d)]
  /\ calls' = calls + 1
  /\ UNCHANGED <<gameVars, vehicle>>

NextPhysics ==
  \/ CallTorqueAtRpm
  \/ CallPressureGripFactor

SpecPhysics == InitPhysics /\ [][NextPhysics]_vars

(***************************************************************************)
(* Properties of the Vehicle, checked under SpecVehicle.                   *)
(***************************************************************************)

\* C1: from the constructed vehicle, after any sequence of update, shiftUp
\* and shiftDown calls (and reset), in automatic or manual mode, state.gear
\* is within [1, tuning.gearRatios.length].
GearWithinGearbox == vehicle.state.gear \in 1..Len(vehicle.tuning.gearRatios)

\* C1's case: shiftUp was called in manual mode with the top gear engaged
ShiftUpAtTopGear ==
  /\ last.op = "shiftUp"
  /\ last.before.manualMode
  /\ last.before.state.gear = Len(last.before.tuning.gearRatios)

\* C2: after every update call, state.engineRpm is within [1000, 7200].
EngineRpmWithinLimits ==
  last.op = "update" => vehicle.state.engineRpm \in 1000000..7200000

\* C2's case: an update at a wheel speed that puts the engine at the rev limiter
UpdateAtRevLimiter ==
  /\ last.op = "update"
  /\ vehicle.state.engineRpm = revLimiter
  /\ FMul(vehicle.state.wheelSpeed,
          FMul(last.before.tuning.gearRatios[last.before.state.gear],
               last.before.tuning.finalDrive)) + 1000000 > revLimiter

\* C7: in automatic mode an update shifts up by exactly one gear iff the
\* engine RPM it computed is above 6500 and the gear is below the top gear,
\* otherwise down by exactly one iff the RPM is below 2200 and the gear above
\* 1, otherwise leaves the gear; in manual mode an update leaves the gear.
AutomaticGearRule ==
  last.op = "update" =>
    LET rpm == vehicle.state.engineRpm
        old == last.before.state.gear
        maxGear == Len(last.before.tuning.gearRatios)
    IN  vehicle.state.gear =
          IF last.before.manualMode THEN old
          ELSE IF rpm > 6500000 /\ old < maxGear THEN old + 1
          ELSE IF rpm < 2200000 /\ old > 1 THEN old - 1
          ELSE old

\* C7's case: an automatic update above 6500 RPM, two or more gears below the top
AutomaticUpshift ==
  /\ last.op = "update"
  /\ ~last.before.manualMode
  /\ vehicle.state.engineRpm > 6500000
  /\ last.before.state.gear + 1 < Len(last.before.tuning.gearRatios)
  /\ vehicle.state.gear = last.before.state.gear + 1

\* C8: shiftUp and shiftDown move the gear by exactly one step and set the
\* clutch to 0.2 when manualMode is true and the gear is not at the bound of
\* the direction; otherwise the call leaves the whole vehicle as it was.
ManualShiftEffect ==
  last.op \in {"shiftUp", "shiftDown"} =>
    LET b == last.before
        up == last.op = "shiftUp"
        atBound == IF up THEN b.state.gear >= Len(b.tuning.gearRatios) ELSE b.state.gear <= 1
    IN  IF b.manualMode /\ ~atBound
        THEN vehicle = [b EXCEPT !.state.gear = IF up THEN @ + 1 ELSE @ - 1, !.clutch = 200]
        ELSE vehicle = b

\* C8's case: shiftDown called in automatic mode above first gear
ShiftDownInAutomatic ==
  /\ last.op = "shiftDown"
  /\ ~last.before.manualMode
  /\ last.before.state.gear > 1

\* a VehicleInput with each field clamped to its range
ClampedInput(input) ==
  [ throttle |-> Max(0, Min(1000, input.throttle)),
    brake |-> Max(0, Min(1000, input.brake)),
    steer |-> Max(-1000, Min(1000, input.steer)),
    handbrake |-> Max(0, Min(1000, input.handbrake)) ]

\* C17: an update leaves the vehicle as the update with each input clamped
\* to its range (steer to [-1, 1], throttle, brake and handbrake to [0, 1])
\* leaves it.
UpdateClampsInputs ==
  last.op = "update" => vehicle = update(last.before, last.dt, ClampedInput(last.input))

\* C18: after reset(x, z) the state is that of a freshly constructed
\* vehicle (tire state included) but for position, which is (x, z); there is
\* no clutch slip; tuning and manualMode are as before.
ResetRestoresDefaults ==
  last.op = "reset" =>
    /\ vehicle.state = [NewVehicleState EXCEPT !.position = [x |-> last.positionX,
                                                              z |-> last.positionZ]]
    /\ vehicle.clutch = 0
    /\ vehicle.tuning = last.before.tuning
    /\ vehicle.manualMode = last.before.manualMode

(***************************************************************************)
(* Properties of torqueAtRpm and pressureGripFactor, checked under         *)
(* SpecPhysics.                                                            *)
(***************************************************************************)

\* C22: torqueAtRpm returns the first point's torque at or below the first
\* breakpoint, the last point's torque above the last breakpoint, a
\* breakpoint's own torque at that breakpoint, and strictly between two
\* adjacent breakpoints the linear interpolation between them (to within
\* the rounding of the quotient, a thousandth of the torque difference).
TorqueIsInterpolated ==
  last.op = "torqueAtRpm" =>
    LET curve == last.car.torqueCurve
        n == Len(curve)
    IN  /\ last.rpm <= curve[1][1] => last.result = curve[1][2]
        /\ last.rpm > curve[n][1] => last.result = curve[n][2]
        /\ \A i \in 1..n : last.rpm = curve[i][1] => last.result = curve[i][2]
        /\ \A i \in 1..(n - 1) :
             curve[i][1] < last.rpm /\ last.rpm < curve[i + 1][1] =>
               LET r1 == curve[i][1]
                   t1 == curve[i][2]
                   r2 == curve[i + 1][1]
                   t2 == curve[i + 1][2]
                   \* breakpoints are whole rpm and whole Nm
                   exact == t1 + (((t2 - t1) \div 1000) * (last.rpm - r1))
                                   \div ((r2 - r1) \div 1000)
               IN  /\ Abs(last.result - exact) <= Abs(t2 - t1) \div 1000 + 2
                   /\ last.result >= Min(t1, t2)
                   /\ last.result <= Max(t1, t2)

\* C22's case: the M3's torque asked between its third and fourth breakpoint
TorqueBetweenBreakpoints ==
  /\ last.op = "torqueAtRpm"
  /\ last.car.id = "m3"
  /\ last.rpm = 4321000
  /\ last.result > 410000
  /\ last.result < 500000

FullThrottleReachesSecondGear ==
  vehicle.car.id = "m3" /\ last.input.throttle = 1000 =>
    /\ last.op = "update" /\ calls <= 20 => vehicle.state.speed >= last.before.state.speed
    /\ calls = MaxDriveSteps => last.topRpm > 6500000 /\ last.topGear >= 2

(***************************************************************************)
(* Properties of the route functions, checked under SpecFn.                *)
(***************************************************************************)
RECURSIVE SumLengths(_, _)
SumLengths(nodes, n) == IF n = 0 THEN 0 ELSE SumLengths(nodes, n - 1) + nodes[n].segment.length

\* C10: buildRoutePath returns for every node id of the graph; the nodes are
\* the start node followed by left children down to a leaf, 6 - k of them
\* from a node of stage k (from s1: five, of stages 1 to 5); totalLength is
\* the sum of their segment lengths; destination is the last node's label,
\* one of A to E.
RoutePathIsLeftChain ==
  last.op = "buildRoutePath" /\ last.startId \in NodeIds =>
    LET r == last.result
        n == Len(r.nodes)
    IN  /\ r.returns
        /\ n = 6 - ROUTE_GRAPH[last.startId].stage
        /\ r.nodes[1] = ROUTE_GRAPH[last.startId]
        /\ \A i \in 1..(n - 1) :
             /\ Has(r.nodes[i], "left")
             /\ r.nodes[i + 1] = ROUTE_GRAPH[r.nodes[i].left]
        /\ ~Has(r.nodes[n], "left") /\ ~Has(r.nodes[n], "right")
        /\ last.startId = "s1" => [i \in 1..n |-> r.nodes[i].stage] = <<1, 2, 3, 4, 5>>
        /\ r.totalLength = SumLengths(r.nodes, n)
        /\ r.destination = r.nodes[n].destination
        /\ r.destination \in {"A", "B", "C", "D", "E"}

\* C10's case: the path from the root
RoutePathFromRoot ==
  /\ last.op = "buildRoutePath"
  /\ last.startId = "s1"
  /\ Len(last.result.nodes) = 5

\* the ids of the nodes of graph that name id as their left or right child
Parents(graph, id) ==
  {p \in DOMAIN graph : \/ Has(graph[p], "left") /\ graph[p].left = id
                        \/ Has(graph[p], "right") /\ graph[p].right = id}

LeavesTo(graph, letter) ==
  {id \in DOMAIN graph : Has(graph[id], "destination") /\ graph[id].destination = letter}

\* C20: the 16 stage-5 leaves, in the order s5llll, s5lllr, ..., s5rrrr,
\* carry the destinations A B C D E A B C D E A B C D E A; every destination
\* of the graph is one of A..E, every one of the five letters is the
\* destination of at least one leaf, and some letter is shared by several.
LeafDestinationsCycle ==
  LET graph == last.graph
      order == <<"s5llll", "s5lllr", "s5llrl", "s5llrr", "s5lrll", "s5lrlr", "s5lrrl",
                 "s5lrrr", "s5rlll", "s5rllr", "s5rlrl", "s5rlrr", "s5rrll", "s5rrlr",
                 "s5rrrl", "s5rrrr">>
      letters == <<"A", "B", "C", "D", "E">>
  IN  /\ {id \in DOMAIN graph : graph[id].stage = 5} = {order[i] : i \in 1..16}
      /\ \A i \in 1..16 :
           /\ Has(graph[order[i]], "destination")
           /\ graph[order[i]].destination = letters[((i - 1) % 5) + 1]
      /\ \A id \in DOMAIN graph :
           Has(graph[id], "destination") => graph[id].destination \in {"A", "B", "C", "D", "E"}
      /\ \A letter \in {"A", "B", "C", "D", "E"} : LeavesTo(graph, letter) # {}
      /\ \E letter \in {"A", "B", "C", "D", "E"} : Cardinality(LeavesTo(graph, letter)) > 1

\* C20's case: a route built from a leaf past the first five, whose letter
\* an earlier leaf carries too
RouteFromLeafSharingLetter ==
  /\ last.op = "buildRoutePath"
  /\ last.startId = "s5rrrr"
  /\ Len(last.result.nodes) = 1
  /\ last.result.nodes[1].destination = "A"
  /\ last.graph["s5llll"].destination = "A"

\* C12: nextNodeFromChoice returns the left child's id for 'left' and the
\* right child's id for 'right' at a node that has children, and the id it
\* was given at a leaf.
NextNodeIsChosenChild ==
  last.op = "nextNodeFromChoice" /\ last.currentId \in NodeIds =>
    LET node == ROUTE_GRAPH[last.currentId]
    IN  /\ ~last.throws
        /\ Has(node, "left") /\ last.choice = "left" => last.result = node.left
        /\ Has(node, "right") /\ last.choice = "right" => last.result = node.right
        /\ ~Has(node, "left") /\ ~Has(node, "right") => last.result = last.currentId

\* C12's case: nextNodeFromChoice called at a leaf
NextNodeAtLeaf ==
  /\ last.op = "nextNodeFromChoice"
  /\ last.currentId \in NodeIds
  /\ ROUTE_GRAPH[last.currentId].stage = 5
  /\ last.result = last.currentId

RECURSIVE SumWholeSteps(_, _)
\* the sum of floor(segment.length / 20) * 20 over the first n of nodes
SumWholeSteps(nodes, n) ==
  IF n = 0 THEN 0
  ELSE SumWholeSteps(nodes, n - 1) + (nodes[n].segment.length \div 20000) * 20000

\* C13: the distances buildRouteSamples returns start at 20 and grow by
\* exactly 20 from each entry to the next, and the last of them is the sum
\* of floor(segment.length / 20) * 20 over the nodes given (there is no
\* entry exactly when that sum is 0).
SampleDistancesGrowByTwenty ==
  last.op = "buildRouteSamples" =>
    LET d == last.result.distances
        n == Len(d)
        sum == SumWholeSteps(last.nodes, Len(last.nodes))
    IN  /\ \A i \in 1..n : d[i] = (IF i = 1 THEN 20000 ELSE d[i - 1] + 20000)
        /\ \A i \in 1..(n - 1) : d[i] <= d[i + 1]
        /\ n > 0 => d[n] = sum
        /\ n = 0 => sum = 0

\* C13's case: samples of several nodes, one with a length that is no
\* multiple of 20
SamplesOfUnevenLength ==
  /\ last.op = "buildRouteSamples"
  /\ Len(last.nodes) > 1
  /\ \E i \in 1..Len(last.nodes) : last.nodes[i].segment.length % 20000 # 0
  /\ Len(last.result.distances) > 0

\* C37: buildRouteSamples returns, for the nodes given in their order,
\* floor(segment.length / 20) samples for each, every one with the width and
\* the terrain of its node's segment; points, widths, terrainTypes and
\* distances have the same length.
SamplesCarryTheirNode ==
  last.op = "buildRouteSamples" =>
    LET r == last.result
        nodes == last.nodes
        end(k) == SumWholeSteps(nodes, k) \div 20000
    IN  /\ Len(r.points) = end(Len(nodes))
        /\ Len(r.widths) = Len(r.points)
        /\ Len(r.terrainTypes) = Len(r.points)
        /\ Len(r.distances) = Len(r.points)
        /\ \A k \in 1..Len(nodes) :
             /\ end(k) - end(k - 1) = nodes[k].segment.length \div 20000
             /\ \A i \in (end(k - 1) + 1)..end(k) :
                  /\ r.widths[i] = nodes[k].segment.width
                  /\ r.terrainTypes[i] = nodes[k].segment.terrain

\* C37's case: samples of a path through nodes of different widths and
\* terrains, one of a length that is no multiple of 20
SamplesOfDifferentSegments ==
  /\ last.op = "buildRouteSamples"
  /\ Len(last.nodes) > 2
  /\ last.nodes[1].segment.width # last.nodes[2].segment.width
  /\ last.nodes[1].segment.terrain # last.nodes[2].segment.terrain
  /\ last.nodes[2].segment.length % 20000 # 0
  /\ Len(last.result.widths) > 100

\* the sample at index i
SampleAt(samples, i) ==
  [point |-> samples.points[i], width |-> samples.widths[i], terrain |-> samples.terrainTypes[i]]

\* C14: getSampleAtDistance returns the sample at the smallest index whose
\* distance is >= the query, and the last sample when the query is above
\* every distance.
SampleLookupFindsFirstAtOrAbove ==
  last.op = "getSampleAtDistance" =>
    LET samples == routeSamplesFrom[last.startId]
        d == samples.distances
        atOrAbove == {i \in 1..Len(d) : d[i] >= last.distance}
    IN  IF atOrAbove # {}
        THEN last.result = SampleAt(samples, CHOOSE i \in atOrAbove : \A j \in atOrAbove : i <= j)
        ELSE last.result = SampleAt(samples, Len(d))

\* C14's case: a query above every distance of a route of several nodes
SampleLookupPastTheEnd ==
  /\ last.op = "getSampleAtDistance"
  /\ last.startId = "s1"
  /\ \A i \in 1..Len(routeSamplesFrom["s1"].distances) :
       routeSamplesFrom["s1"].distances[i] < last.distance
  /\ last.result.width = 8200

\* C16: buildRoutePath and nextNodeFromChoice, given a string that is no
\* key of ROUTE_GRAPH, throw an error instead of returning a result.
MalformedReferenceThrows ==
  /\ last.op = "buildRoutePath" /\ last.startId \notin NodeIds => last.result.throws
  /\ last.op = "nextNodeFromChoice" /\ last.currentId \notin NodeIds => last.throws

(***************************************************************************)
(* Properties of the game, checked under Spec.                             *)
(***************************************************************************)

\* C3: the game is in 'finish' only after stageProgress.node has taken a
\* node of each of the stages 1, 2, 3, 4, 5, in that order, since the race
\* started.
FinishAfterFiveStages == game.state = "finish" => hist.stages = <<1, 2, 3, 4, 5>>

RECURSIVE NodeChosen(_, _)
\* the node the first n of the choices lead to from s1
NodeChosen(choices, n) ==
  IF n = 0 THEN "s1" ELSE nextNodeFromChoice(NodeChosen(choices, n - 1), choices[n])

\* C4: in 'finish', Game.destination is the destination label of the leaf
\* the fork choices made since the race started lead to from s1.
DestinationOfChosenLeaf ==
  game.state = "finish" =>
    game.destination = ROUTE_GRAPH[NodeChosen(hist.choices, Len(hist.choices))].destination

\* C5: in a frame that runs the race block, Vehicle.shiftUp is invoked if
\* shiftUp is held and was released at the frame before (a press), is not
\* invoked if it is held and was already held at the race frame before (the
\* same press), and is not invoked if it is not held; the same for shiftDown.
ShiftOncePerPress ==
  game.probe.stepped =>
    /\ hist.upHeld /\ ~hist.upHeldBefore => game.probe.shiftUpCalled
    /\ hist.upHeld /\ hist.upHeldBefore /\ hist.steppedBefore => ~game.probe.shiftUpCalled
    /\ ~hist.upHeld => ~game.probe.shiftUpCalled
    /\ hist.downHeld /\ ~hist.downHeldBefore => game.probe.shiftDownCalled
    /\ hist.downHeld /\ hist.downHeldBefore /\ hist.steppedBefore => ~game.probe.shiftDownCalled
    /\ ~hist.downHeld => ~game.probe.shiftDownCalled

\* C6: between the start of a stage (race start or stage advance) and the
\* next stage advance, the checkpoint bonus is added at most once.
BonusOncePerStage == hist.bonuses <= 1

\* C9: a progress update that finds |position.x| above the width of the
\* sample at the stage distance puts position.x at sign(x) * width,
\* multiplies velocity.x by 0.4 and velocity.z by 0.6 and takes 1.5 s off the
\* timer, not below 0; and after every progress update that did not end on
\* the timeout, |position.x| is at most the width of the sample at the stage
\* distance.
OutOfBoundsHandling ==
  game.probe.progress = "ran" =>
    LET entry == game.probe.oobIn
        exit == game.probe.oobOut
    IN  /\ Abs(entry.x) > entry.width =>
             /\ exit.x = Sign(entry.x) * entry.width
             /\ exit.velocityX = FMul(entry.velocityX, 400)
             /\ exit.velocityZ = FMul(entry.velocityZ, 600)
             /\ exit.timer = Max(0, entry.timer - 1500)
        /\ Abs(exit.x) <= entry.width
        /\ Abs(game.vehicle.state.position.x)
             <= getSampleAtDistance(game, game.stageProgress.distance).width

\* C9's case: the car was beyond the edge of the road, with less than 1.5 s left
OutOfBoundsWithTimerFloored ==
  /\ game.probe.progress = "ran"
  /\ Abs(game.probe.oobIn.x) > game.probe.oobIn.width
  /\ game.probe.oobIn.timer < 1500
  /\ game.probe.oobOut.timer = 0

\* C25: advanceStage is called only by a frame whose fork block ran, only
\* with forkDistance <= 0 and only with the side of the band the car was
\* last seen on since the fork was entered (never while it has not left the
\* band); the frame leaves the chosen child of the node it started at as
\* the current node, a node of the next stage.
ForkResolvesToChosenChild ==
  game.probe.advanced # Null =>
    /\ game.probe.fork # NullObject
    /\ game.forkDistance <= 0
    /\ hist.lane # Null
    /\ game.probe.advanced = hist.lane
    /\ LET old == ROUTE_GRAPH[hist.nodeBefore]
       IN  /\ game.stageProgress.node.id =
                (IF hist.lane = "left" THEN old.left ELSE old.right)
           /\ game.stageProgress.node.stage = old.stage + 1
           /\ game.currentNodeId = game.stageProgress.node.id

\* the same for the forks of stages 1 to 3 only
ForkRuleBeforeLastFork ==
  ROUTE_GRAPH[hist.nodeBefore].stage < 4 => ForkResolvesToChosenChild

\* the parts of C25 other than the node left current
ForkTimingAndLane ==
  /\ game.probe.advanced # Null =>
       /\ game.probe.fork # NullObject
       /\ game.forkDistance <= 0
       /\ hist.lane # Null
       /\ game.probe.advanced = hist.lane
  /\ game.stageProgress.node.id # hist.nodeBefore /\ game.state # "countdown" =>
       game.probe.advanced # Null

\* C26: Resume after a pause leaves the game in the state it was in when
\* the pause was taken, with the timer, the current stage node and the stage
\* distance it had then.
ResumeRestoresPausedState ==
  ~game.isPaused /\ hist.pausedFrom # NullObject =>
    /\ game.state = hist.pausedFrom.state
    /\ game.timer = hist.pausedFrom.timer
    /\ game.stageProgress.node.id = hist.pausedFrom.node
    /\ game.stageProgress.distance = hist.pausedFrom.distance

\* the same for a pause taken in state 'race' only
ResumeRestoresPausedRace ==
  hist.pausedFrom # NullObject /\ hist.pausedFrom.state = "race" => ResumeRestoresPausedState

\* timer, node and stage distance alone, whatever the state the pause was taken in
ResumeKeepsProgress ==
  ~game.isPaused /\ hist.pausedFrom # NullObject =>
    /\ game.timer = hist.pausedFrom.timer
    /\ game.stageProgress.node.id = hist.pausedFrom.node
    /\ game.stageProgress.distance = hist.pausedFrom.distance

\* C27: once the timer of a race has been brought to 0, by the decrement of
\* a frame or by an out-of-bounds or obstacle penalty, it stays 0 until the
\* race is restarted, no checkpoint bonus is added and advanceStage is not
\* called, in that frame or later; the next frame that runs the race block
\* ends in 'results', as does the frame of a timeout.
TimerStaysAtZero ==
  /\ hist.zeroed =>
       /\ game.timer = 0
       /\ ~game.probe.bonus
       /\ game.probe.advanced = Null
  /\ game.probe.progress = "timeout" => game.state = "results"
  /\ hist.zeroedBefore /\ game.probe.stepped => game.state = "results"

\* the frame of a timeout: the decrement brings the timer to 0 and nothing
\* else of updateProgress runs
TimeoutEndsRace ==
  [][frames' # frames /\ game'.probe.progress = "timeout" =>
       /\ game'.state = "results"
       /\ game'.timer = 0
       /\ ~game'.probe.bonus
       /\ game'.probe.advanced = Null]_vars

\* C28: a snapshot tryRewind restores was recorded after the current stage
\* began with the current vehicle, that is after the start of the race, the
\* latest stage advance and the choice of the car.
RewindStaysWithinStage ==
  game.probe.restored # NullObject =>
    game.probe.restored.timestamp > hist.stageSinceBefore

\* C29: with frames arriving and no pause, a race that has been started
\* reaches 'finish' or 'results', whatever keys are held.
RaceEnds ==
  game.state \in {"countdown", "race", "checkpoint", "fork"}
    ~> game.state \in {"finish", "results"}

\* C29's case: a race that ended after a checkpoint bonus and a stage advance
RaceEndedInSecondStage ==
  /\ last.op = "race"
  /\ game.state = "results"
  /\ Len(hist.stages) = 2
  /\ frames > 100

\* whether a frame of dt that starts at g is to run the dynamics and the
\* route progress: the game is not at the start panel, is not paused once
\* the pause key has been handled, and is in race, checkpoint or fork once
\* the countdown has been handled
FrameRuns(g, dt) ==
  LET toggled == consume(g.input, "pause").fired
      paused == IF toggled THEN ~g.isPaused ELSE g.isPaused
      state1 == IF toggled /\ g.isPaused /\ g.state = "pause" THEN "race" ELSE g.state
      state2 == IF state1 = "countdown" /\ g.countdown - dt <= 0 THEN "race" ELSE state1
  IN  /\ g.state # "start"
      /\ ~paused
      /\ state2 \in {"race", "checkpoint", "fork"}

\* C30: a frame calls vehicle.update once and then updateProgress once when
\* the game is not paused and its state, after the countdown has been
\* handled, is race, checkpoint or fork; otherwise it calls neither and
\* leaves the vehicle state, the stage distance and the timer as they were.
FrameStepsOnceInOrder ==
  [][frames' # frames =>
       IF FrameRuns(game, Min(50, game'.lastFrame - game.lastFrame))
       THEN game'.probe.trace = <<"update", "updateProgress">>
       ELSE /\ game'.probe.trace = <<>>
            /\ game'.vehicle.state = game.vehicle.state
            /\ game'.stageProgress.distance = game.stageProgress.distance
            /\ game'.timer = game.timer]_vars

\* C30's case: the frame in which the countdown ends runs both
FrameAtEndOfCountdown ==
  /\ frames > 0
  /\ hist.steppedBefore = FALSE
  /\ game.probe.trace = <<"update", "updateProgress">>
  /\ game.state = "race"
  /\ game.countdown <= 0
  /\ game.countdown > -50
  /\ game.timer < 55000

\* C31: while the stage distance is below the length of the current stage
\* node's segment, the width and the terrain given by the sample lookup of
\* updateProgress are those of that node's segment.
LookupGivesCurrentSegment ==
  game.probe.road # NullObject /\ game.probe.road.distance < ROUTE_GRAPH[game.probe.road.node].segment.length
    => /\ game.probe.road.width = ROUTE_GRAPH[game.probe.road.node].segment.width
       /\ game.probe.road.terrain = ROUTE_GRAPH[game.probe.road.node].segment.terrain

\* the same for the stages whose length is a whole number of sample steps
LookupGivesCurrentSegmentOfWholeSteps ==
  ( /\ game.probe.road # NullObject
    /\ game.probe.road.distance < ROUTE_GRAPH[game.probe.road.node].segment.length
    /\ ROUTE_GRAPH[game.probe.road.node].segment.length % 20000 = 0 )
    => /\ game.probe.road.width = ROUTE_GRAPH[game.probe.road.node].segment.width
       /\ game.probe.road.terrain = ROUTE_GRAPH[game.probe.road.node].segment.terrain

\* C32: a frame that does not rebuild the route penalises exactly the
\* obstacles it marks hit, each by 2 s of timer floored at 0, and leaves hit
\* every obstacle that was hit before it; so an obstacle that is hit is not
\* penalised again by any later frame, with or without a rewind or a pause.
ObstaclePenalisesOnce ==
  [][frames' # frames /\ game'.probe.advanced = Null =>
       /\ Len(game'.obstacles) = Len(game.obstacles)
       /\ \A k \in 1..Len(game.obstacles) : game.obstacles[k].hit => game'.obstacles[k].hit
       /\ game'.probe.hits =
            Cardinality({k \in 1..Len(game.obstacles) :
                           ~game.obstacles[k].hit /\ game'.obstacles[k].hit})
       /\ game'.probe.penalised # NullObject =>
            game'.probe.penalised.timer =
              Max(0, game'.probe.oobOut.timer - 2000 * game'.probe.hits)]_vars

\* C32's case: a frame ran the obstacle loop next to an obstacle hit earlier
FrameBesideHitObstacle ==
  /\ game.probe.penalised # NullObject
  /\ game.probe.hits = 0
  /\ \E k \in 1..Len(game.obstacles) :
       /\ game.obstacles[k].hit
       /\ Abs(game.probe.road.distance - game.obstacles[k].distance) < 8000
       /\ Abs(game.probe.oobOut.x - game.obstacles[k].lateral) < 2000

\* the same after a rewind in that frame
RewindBesideHitObstacle ==
  FrameBesideHitObstacle /\ game.probe.rewound

\* C33: in every state of the game, isPaused is true exactly when the state
\* is 'pause', whatever frames, keys and button clicks came before.
PausedIffPauseState ==
  game.isPaused <=> game.state = "pause"

\* C33's case: the game was paused outside a race, by the pause key in a frame
PausedOutsideRace ==
  /\ frames > 0
  /\ game.isPaused
  /\ hist.pausedFrom # NullObject
  /\ hist.pausedFrom.state \in {"select", "garage", "results"}

\* the game left the pause by Resume or by the pause key
LeftPause ==
  /\ ~game.isPaused
  /\ hist.pausedFrom # NullObject

\* C35: after a call of update, whatever its dt and input and whatever calls
\* came before it, the magnitude of yawRate is at most 1.36, which is
\* 1 + (1 - driftAssist) * 1.2 for the driftAssist of 0.7.
YawRateWithinClamp ==
  last.op = "update" => Abs(vehicle.state.yawRate) <= 1360

\* C35's case: an update whose yaw rate the clamp cut
YawRateAtClamp ==
  /\ last.op = "update"
  /\ Abs(vehicle.state.yawRate) = 1360
  /\ Abs(last.before.state.yawRate) < 1360

\* the same bound in the game, where tryRewind writes yawRate from a snapshot
YawRateWithinClampInGame ==
  Abs(game.vehicle.state.yawRate) <= 1360

\* a rewind restored a yaw rate other than 0
RewoundToTurningCar ==
  /\ game.probe.rewound
  /\ game.probe.restored.yawRate # 0

\* C36: after a call of update, tireState.combinedSlip is
\* min(1, |slipAngle| + |slipRatio|), hence within [0, 1], and the traction
\* multiplier update applied to the velocity for that slip is within
\* [1 - 0.6 * tractionAssist, 1], hence positive.
SlipAndTractionBounded ==
  last.op = "update" =>
    /\ vehicle.state.tireState.combinedSlip =
         Min(1000, Abs(vehicle.state.tireState.slipAngle) + Abs(vehicle.state.tireState.slipRatio))
    /\ vehicle.state.tireState.combinedSlip \in 0..1000
    /\ tractionAt(vehicle.state.tireState.combinedSlip) >= 1000 - FMul(600, tractionAssist)
    /\ tractionAt(vehicle.state.tireState.combinedSlip) <= 1000
    /\ tractionAt(vehicle.state.tireState.combinedSlip) > 0

\* C36's case: an update whose slip sum exceeded 1, the multiplier lowest
SlipSumAboveOne ==
  /\ last.op = "update"
  /\ Abs(vehicle.state.tireState.slipAngle) + Abs(vehicle.state.tireState.slipRatio) > 1000
  /\ vehicle.state.tireState.combinedSlip = 1000
  /\ tractionAt(vehicle.state.tireState.combinedSlip) = 640

\* an update with a slip between 0.4 and 1, the multiplier between its bounds
SlipDamped ==
  /\ last.op = "update"
  /\ vehicle.state.tireState.combinedSlip \in 401..999

\* C38: the RouteSamples the game holds are, in every state, what
\* buildRouteSamples returned for the path from the node the route was last
\* built for: a rebuild replaces them, and no frame, rewind, stage advance,
\* restart or button changes them in between.
HeldSamplesAreAsReturned ==
  game.routeSamples = routeSamplesFrom[game.currentNodeId]

\* C38's case: the route was rebuilt for the node of a later stage
RouteRebuiltForLaterStage ==
  /\ frames > 0
  /\ game.probe.advanced # Null
  /\ game.currentNodeId # "s1"
  /\ game.routeSamples # routeSamplesFrom["s1"]
  /\ game.stageProgress.distance = 0

\* a rewind, in a frame of a race whose route was built more than once
RewindAfterRebuild ==
  /\ game.probe.rewound
  /\ game.currentNodeId # "s1"

\* C24: in every state of the game the gear of the active vehicle is within
\* [1, tuning.gearRatios.length] of that vehicle and its engineRpm within
\* [1000, 7200].
ActiveVehicleWithinLimits ==
  /\ game.vehicle.state.gear >= 1
  /\ game.vehicle.state.gear <= Len(game.vehicle.tuning.gearRatios)
  /\ game.vehicle.state.engineRpm >= 1000000
  /\ game.vehicle.state.engineRpm <= 7200000

\* C15: between two stage starts at most one rewind request restores a
\* snapshot; a request made after one was restored in the same stage, and a
\* request made with an empty buffer, leave the game as it was.
RewindOncePerStage ==
  /\ hist.rewinds <= 1
  /\ game.probe.rewindRequest # NullObject =>
       /\ hist.rewindsBefore >= 1 => game.probe.rewindRequest.unchanged
       /\ game.probe.rewindRequest.buffered = 0 => game.probe.rewindRequest.unchanged

\* C15's case: a rewind request, with snapshots in the buffer, in a stage in
\* which a snapshot was restored before
RewindRequestAfterRestore ==
  /\ game.probe.rewindRequest # NullObject
  /\ hist.rewindsBefore = 1
  /\ game.probe.rewindRequest.buffered > 0
  /\ game.probe.rewindRequest.unchanged

====
